---- MODULE Spec2Model ----
(***************************************************************************)
(* Kinematic simulator of a motorised window-vent flap (eflister/flappy).  *)
(*                                                                         *)
(* The module models the physics hook useSimulationPhysics in its two      *)
(* variants found in the repository:                                       *)
(*   - the forward-mapping variant (src/hooks/useSimulationPhysics.ts      *)
(*     lines 295-526, geometry helpers lines 541-604, constants            *)
(*     src/unnamed/part_005), whose maxAngleDeg is found by a collision    *)
(*     sweep;                                                              *)
(*   - the two-bar variant (same file, lines 19-275, constants             *)
(*     src/constants.ts lines 16-107), whose maxAngleDeg is analytic and   *)
(*     whose currentAngleDeg comes from an inverse solve.                  *)
(*                                                                         *)
(* Numbers.  The code computes in IEEE doubles; the model computes in      *)
(* fixed point over TLC's 32-bit integers:                                 *)
(*   - lengths and coordinates in 1/40 px            (Px, HalfPx);         *)
(*   - sines, cosines and unit vectors scaled by One (= 20000);            *)
(*   - angles of the sweep in tenths of a degree     (Deg);                *)
(*   - currentAngleDeg in thousandths of a degree.                         *)
(* Every product below stays under 2^31; TLC reports an overflow as an     *)
(* error, so a run that ends normally computed without overflow.           *)
(***************************************************************************)
EXTENDS Integers, Sequences, FiniteSets, TLC

(***************************************************************************)
(* Fixed-point helpers                                                     *)
(***************************************************************************)
Px(n) == 40 * n          \* n pixels
HalfPx(n) == 20 * n      \* n/2 pixels
One == 2 * 10000         \* the fixed-point value of 1.0 for sines and cosines
Deg(d) == 10 * d         \* d degrees, in tenths of a degree

Abs(n) == IF n < 0 THEN -n ELSE n
Max(m, n) == IF m >= n THEN m ELSE n
Min(m, n) == IF m <= n THEN m ELSE n

\* num / den rounded to the nearest integer, den > 0
RDiv(num, den) == (num + (den \div 2)) \div den

\* num / den rounded, for a divisor of either sign; den # 0
SDiv(num, den) == IF den > 0 THEN RDiv(num, den) ELSE -RDiv(num, -den)

RECURSIVE SqrtSearch(_, _, _)
SqrtSearch(n, lo, hi) ==
  IF lo >= hi THEN lo
  ELSE LET mid == (lo + hi + 1) \div 2
       IN IF mid * mid <= n THEN SqrtSearch(n, mid, hi)
                            ELSE SqrtSearch(n, lo, mid - 1)

\* Math.sqrt on a non-negative integer: floor of the square root
Sqrt(n) == SqrtSearch(n, 0, 46340)

(***************************************************************************)
(* Math.sin / Math.cos at the angles of the sweep (multiples of half a     *)
(* degree), scaled by One.  SinTable[k + 1] = sin(k / 2 degrees).          *)
(***************************************************************************)
SinTable ==
  << 0, 175, 349, 524, 698, 872, 1047, 1221, 1395, 1569,
     1743, 1917, 2091, 2264, 2437, 2611, 2783, 2956, 3129, 3301,
     3473, 3645, 3816, 3987, 4158, 4329, 4499, 4669, 4838, 5008,
     5176, 5345, 5513, 5680, 5847, 6014, 6180, 6346, 6511, 6676,
     6840, 7004, 7167, 7330, 7492, 7654, 7815, 7975, 8135, 8294,
     8452, 8610, 8767, 8924, 9080, 9235, 9389, 9543, 9696, 9848,
     10000, 10151, 10301, 10450, 10598, 10746, 10893, 11039, 11184, 11328,
     11472, 11614, 11756, 11896, 12036, 12175, 12313, 12450, 12586, 12722,
     12856, 12989, 13121, 13252, 13383, 13512, 13640, 13767, 13893, 14018,
     14142, 14265, 14387, 14507, 14627, 14746, 14863, 14979, 15094, 15208,
     15321, 15432, 15543, 15652, 15760, 15867, 15973, 16077, 16180, 16282,
     16383, 16483, 16581, 16678, 16773, 16868, 16961, 17053, 17143, 17233,
     17321, 17407, 17492, 17576, 17659, 17740, 17820, 17899, 17976, 18052,
     18126, 18199, 18271, 18341, 18410, 18478, 18544, 18608, 18672, 18733,
     18794, 18853, 18910, 18966, 19021, 19074, 19126, 19176, 19225, 19273,
     19319, 19363, 19406, 19447, 19487, 19526, 19563, 19598, 19633, 19665,
     19696, 19726, 19754, 19780, 19805, 19829, 19851, 19871, 19890, 19908,
     19924, 19938, 19951, 19963, 19973, 19981, 19988, 19993, 19997, 19999,
     20000 >>

\* sine of k half-degrees, 0 <= k <= 360
SinHalfDeg(k) == IF k <= 180 THEN SinTable[k + 1] ELSE SinTable[361 - k]

\* Math.sin(angleDeg * PI / 180), angleDeg in tenths of a degree
Sin(angleDeg) ==
  LET k == Abs(angleDeg) \div 5
  IN IF angleDeg < 0 THEN -SinHalfDeg(k) ELSE SinHalfDeg(k)

\* Math.cos(angleDeg * PI / 180), angleDeg in tenths of a degree
Cos(angleDeg) ==
  LET k == Abs(angleDeg) \div 5
  IN IF k <= 180 THEN SinTable[181 - k] ELSE -SinTable[k - 179]

(***************************************************************************)
(* utils/geometry: vector math                                             *)
(***************************************************************************)
Point(px, py) == [x |-> px, y |-> py]

\* rotatePoint(p, center, radians), the angle given by its cosine and sine
rotatePoint(p, center, cos, sin) ==
  LET dx == p.x - center.x
      dy == p.y - center.y
  IN Point(RDiv(cos * dx - sin * dy, One) + center.x,
           RDiv(sin * dx + cos * dy, One) + center.y)

\* getDistance(p1, p2) = Math.hypot(p2.x - p1.x, p2.y - p1.y)
getDistance(p1, p2) ==
  Sqrt((p2.x - p1.x) * (p2.x - p1.x) + (p2.y - p1.y) * (p2.y - p1.y))

\* getAngle(p1, p2) = Math.atan2(p2.y - p1.y, p2.x - p1.x), returned as the
\* unit vector (cos, sin) of that angle; atan2(0, 0) = 0
getAngle(p1, p2) ==
  LET d == getDistance(p1, p2)
  IN IF d = 0 THEN [cos |-> One, sin |-> 0]
     ELSE [cos |-> RDiv((p2.x - p1.x) * One, d),
           sin |-> RDiv((p2.y - p1.y) * One, d)]

(***************************************************************************)
(* utils/geometry: Separating Axis Theorem                                 *)
(***************************************************************************)
Dot(p, axis) == p.x * axis.x + p.y * axis.y

SeqMin(s) == CHOOSE v \in {s[i] : i \in 1..Len(s)} :
               \A w \in {s[i] : i \in 1..Len(s)} : v <= w
SeqMax(s) == CHOOSE v \in {s[i] : i \in 1..Len(s)} :
               \A w \in {s[i] : i \in 1..Len(s)} : v >= w

\* projectPolygon(poly, axis): min and max of the vertices' dot products
projectPolygon(poly, axis) ==
  LET dots == [i \in 1..Len(poly) |-> Dot(poly[i], axis)]
  IN [min |-> SeqMin(dots), max |-> SeqMax(dots)]

\* the gap test with <= on one side only
isGapOneSided(polyA, polyB, axis) ==
  \/ projectPolygon(polyA, axis).max < projectPolygon(polyB, axis).min
  \/ projectPolygon(polyB, axis).max <= projectPolygon(polyA, axis).min

\* isGap(polyA, polyB, axis): the projections are disjoint (strict <)
isGap(polyA, polyB, axis) ==
  LET projA == projectPolygon(polyA, axis)
      projB == projectPolygon(polyB, axis)
  IN projA.max < projB.min \/ projB.max < projA.min

\* the normal of the edge poly[i] -> poly[(i + 1) % length]
EdgeNormal(poly, i) ==
  LET p1 == poly[i]
      p2 == poly[(i % Len(poly)) + 1]
  IN Point(-(p2.y - p1.y), p2.x - p1.x)

\* the test on the edge normals of polyA alone
normalsOfAOnly(polyA, polyB) ==
  \A i \in 1..Len(polyA) : ~isGap(polyA, polyB, EdgeNormal(polyA, i))

\* polygonsIntersect(polyA, polyB): no edge normal of either shows a gap
polygonsIntersect(polyA, polyB) ==
  /\ \A i \in 1..Len(polyA) : ~isGap(polyA, polyB, EdgeNormal(polyA, i))
  /\ \A i \in 1..Len(polyB) : ~isGap(polyA, polyB, EdgeNormal(polyB, i))

(***************************************************************************)
(* Forward-mapping variant: constants (src/unnamed/part_005)               *)
(***************************************************************************)
LAYOUT_ORIGIN_X == 650
LAYOUT_TOP_MARGIN == 20
LAYOUT_BOTTOM_PADDING == 40
FRAME_WIDTH == 35
FRAME_THICKNESS == 4
FRAME_CHANNEL_DEPTH == 25
INSULATION_THICKNESS == 20
MECHANICS_FLAP_OFFSET_Y == 25
MECHANICS_OVERLAP_REGION == 60
MECHANICS_BRACKET_WIDTH == 15
MECHANICS_BRACKET_LENGTH == 60
MECHANICS_MOUNT_HEIGHT == 20
MECHANICS_MOUNT_MARGIN_TOP == 20
MOTOR_WIDTH == 50
MOTOR_HEIGHT == 40
MOTOR_HINGE_THICKNESS == 5
MOTOR_HINGE_LEAF_LENGTH == 70
MOTOR_ROD_THICKNESS == 8
HARDWARE_NUT_WIDTH == 18

FLAP_HEIGHT_MIN == 100
FLAP_HEIGHT_MAX == 400
FLAP_HEIGHT_DEFAULT == 125
MOTOR_SPACING_MIN == 80
MOTOR_SPACING_MAX == 300
MOTOR_SPACING_DEFAULT == 120
EXTENSION_MIN == 0
EXTENSION_MAX == 100
EXTENSION_DEFAULT == 0
SPEED_DEFAULT == 0

\* CONSTRAINTS.COLLISION: 0, -160 and 0.5 degrees
START_ANGLE == Deg(0)
END_ANGLE == Deg(-160)
PRECISION == Deg(1) \div 2

(***************************************************************************)
(* Forward-mapping variant: 1. static geometry (useMemo body)              *)
(***************************************************************************)
\* the line from motorPivot through obstaclePoint, solved for x at
\* y = globalNutY: motorPivot.x + (globalNutY - motorPivot.y) / slope with
\* slope = dy / dx, computed as (globalNutY - motorPivot.y) * dx / dy.
\* A zero dy (slope 0) makes the code divide by zero: +-Infinity, which
\* Math.max(30, flapX - requiredNutX) turns into 30 or Infinity; the model
\* then keeps the floor (see mountLengthOf).
requiredNutXOf(motorPivot, obstaclePoint, globalNutY) ==
  motorPivot.x + SDiv((globalNutY - motorPivot.y) * (obstaclePoint.x - motorPivot.x),
                      obstaclePoint.y - motorPivot.y)

\* an obstacle level with the motor pivot at the default motor spacing
obstacleLevelWithMotor(bracketX, pivotY) ==
  Point(bracketX - Px(5), pivotY + Px(MOTOR_SPACING_DEFAULT))

\* obstaclePoint = { x: bracketX - 5, y: pivotY + 10 }, the corner of the bracket
obstaclePointOf(bracketX, pivotY) == Point(bracketX - Px(5), pivotY + Px(10))

computeStaticGeo(flapHeight, motorSpacing) ==
  LET topPanelBottomY == Px(LAYOUT_TOP_MARGIN + FRAME_THICKNESS + 100)
      flapTopY_Closed == topPanelBottomY - Px(MECHANICS_OVERLAP_REGION)
      flapBottomY_Closed == flapTopY_Closed + Px(flapHeight)
      pivotY == flapBottomY_Closed + Px(MECHANICS_FLAP_OFFSET_Y)
      motorPivotY == pivotY + Px(motorSpacing)
      centerLineX == Px(LAYOUT_ORIGIN_X) + HalfPx(FRAME_WIDTH)
      fixedInsulationX == centerLineX - HalfPx(INSULATION_THICKNESS)
      flapX_Closed == fixedInsulationX - Px(INSULATION_THICKNESS)
      bracketX == flapX_Closed - Px(MECHANICS_BRACKET_WIDTH)
      pivotX == bracketX + HalfPx(MECHANICS_BRACKET_WIDTH)
      motorPivotX == fixedInsulationX - HalfPx(MOTOR_HINGE_THICKNESS)
      obstaclePoint == obstaclePointOf(bracketX, pivotY)
      motorPivot == Point(motorPivotX, motorPivotY)
      localNutY == -Px(flapHeight + MECHANICS_FLAP_OFFSET_Y)
                     + Px(MECHANICS_MOUNT_MARGIN_TOP) + HalfPx(MECHANICS_MOUNT_HEIGHT)
      globalNutY == pivotY + localNutY
      mountLength ==
        IF obstaclePoint.y = motorPivot.y \/ obstaclePoint.x = motorPivot.x
        THEN Px(30)
        ELSE Max(Px(30),
                 flapX_Closed - requiredNutXOf(motorPivot, obstaclePoint, globalNutY))
  IN [pivot |-> Point(pivotX, pivotY),
      motorPivot |-> motorPivot,
      flapX |-> flapX_Closed,
      fixedX |-> fixedInsulationX,
      mountLength |-> mountLength,
      localNutY |-> localNutY,
      screenBottomY |-> motorPivotY + Px(80 + FRAME_CHANNEL_DEPTH + FRAME_THICKNESS),
      screenRightX |-> Px(LAYOUT_ORIGIN_X + FRAME_WIDTH),
      topPanelBottomY |-> topPanelBottomY]

(***************************************************************************)
(* Forward-mapping variant: 2. kinematic solver                            *)
(***************************************************************************)
\* motorOffset = -((HINGE_THICKNESS / 2) + (HEIGHT / 2))
motorOffset == -(HalfPx(MOTOR_HINGE_THICKNESS) + HalfPx(MOTOR_HEIGHT))

\* Math.max(-1, Math.min(1, v)) on a value scaled by One
Clamp1(v) == Max(-One, Min(One, v))

\* the sine of Math.asin(clamp(motorOffset / dist)): the clamped ratio itself.
\* motorOffset / 0 is -Infinity in the code, which the clamp turns into -1.
offsetSine(distPivotToNut) ==
  IF distPivotToNut = 0 THEN -One
  ELSE Clamp1(SDiv(motorOffset * One, distPivotToNut))

\* the unit vector of the angle d - c, from the unit vector of d and the sine
\* and cosine of c:
\*   cos(d - c) = cos d cos c + sin d sin c,  sin(d - c) = sin d cos c - cos d sin c
angleDifference(d, sinC, cosC) ==
  [cos |-> RDiv(d.cos * cosC + d.sin * sinC, One),
   sin |-> RDiv(d.sin * cosC - d.cos * sinC, One)]

\* directAngle - correction with the correction's sine sinC; asin's range makes
\* its cosine sqrt(1 - sinC^2) >= 0
subtractAsin(directAngle, sinC) ==
  angleDifference(directAngle, sinC, Sqrt(One * One - sinC * sinC))

\* motorAngle = directAngle - Math.asin(clamp(motorOffset / distPivotToNut))
motorAngleOf(motorPivot, nutGlobal, distPivotToNut) ==
  subtractAsin(getAngle(motorPivot, nutGlobal), offsetSine(distPivotToNut))

\* nutGlobal = rotatePoint(pivot + localNut, pivot, angleRad)
nutGlobalOf(geo, angleDeg) ==
  rotatePoint(Point(geo.pivot.x + ((geo.flapX - geo.mountLength) - geo.pivot.x),
                    geo.pivot.y + geo.localNutY),
              geo.pivot, Cos(angleDeg), Sin(angleDeg))

\* shaftStartGlobal = rotatePoint(motorPivot + shaftStartLocal, motorPivot, motorAngle)
shaftStartGlobalOf(geo, motorAngle) ==
  rotatePoint(Point(geo.motorPivot.x + Px(MOTOR_HINGE_LEAF_LENGTH),
                    geo.motorPivot.y + motorOffset),
              geo.motorPivot, motorAngle.cos, motorAngle.sin)

\* the record solveKinematics returns
kinematicState(geo, nutGlobal, distPivotToNut, motorAngle) ==
  [nutGlobal |-> nutGlobal,
   motorAngle |-> motorAngle,
   shaftStartGlobal |-> shaftStartGlobalOf(geo, motorAngle),
   distPivotToNut |-> distPivotToNut]

kinematicsOfNut(geo, nutGlobal, distPivotToNut) ==
  kinematicState(geo, nutGlobal, distPivotToNut,
                 motorAngleOf(geo.motorPivot, nutGlobal, distPivotToNut))

kinematicsAtNut(geo, nutGlobal) ==
  kinematicsOfNut(geo, nutGlobal, getDistance(geo.motorPivot, nutGlobal))

\* solveKinematics(angleDeg) for an angle of the sweep (tenths of a degree)
solveKinematics(geo, angleDeg) == kinematicsAtNut(geo, nutGlobalOf(geo, angleDeg))

(***************************************************************************)
(* Forward-mapping variant: 3. collision detection                         *)
(***************************************************************************)
\* rod length in the state zeroState plus a 25 mm buffer
shaftLengthAt(zeroState) ==
  getDistance(zeroState.shaftStartGlobal, zeroState.nutGlobal) + Px(25)

\* fixedShaftLength: rod length at the closed state plus the buffer
computeFixedShaftLength(geo) == shaftLengthAt(solveKinematics(geo, Deg(0)))

\* 1. nut hitting the motor hinge
nutHitsHinge(k) ==
  LET minSafeDist == Px(MOTOR_HINGE_LEAF_LENGTH) + HalfPx(HARDWARE_NUT_WIDTH) + Px(2)
  IN k.distPivotToNut < minSafeDist

\* 2. a motor body corner crossing the fixed wall
motorHitsWall(geo, k) ==
  LET motorCorners ==
        << Point(Px(MOTOR_HINGE_LEAF_LENGTH), -HalfPx(MOTOR_HINGE_THICKNESS)),
           Point(Px(MOTOR_HINGE_LEAF_LENGTH - MOTOR_WIDTH),
                 -HalfPx(MOTOR_HINGE_THICKNESS) - Px(MOTOR_HEIGHT)) >>
  IN \E i \in 1..2 :
       rotatePoint(Point(geo.motorPivot.x + motorCorners[i].x,
                         geo.motorPivot.y + motorCorners[i].y),
                   geo.motorPivot, k.motorAngle.cos, k.motorAngle.sin).x > geo.fixedX

\* the flap rectangle rotated about the pivot: TL, TR, BR, BL
polyFlapOf(geo, flapHeight, angleDeg) ==
  LET flapW == Px(INSULATION_THICKNESS)
      flapH == Px(flapHeight)
      flapTL == Point(geo.flapX - geo.pivot.x, -(Px(MECHANICS_FLAP_OFFSET_Y) + flapH))
      c == Cos(angleDeg)
      s == Sin(angleDeg)
      corner(ox, oy) == rotatePoint(Point(geo.pivot.x + flapTL.x + ox,
                                          geo.pivot.y + flapTL.y + oy),
                                    geo.pivot, c, s)
  IN << corner(0, 0), corner(flapW, 0), corner(flapW, flapH), corner(0, flapH) >>

\* the rod rectangle along the motor angle
polyRodOf(k, shaftLength) ==
  LET rodDir == Point(k.motorAngle.cos, k.motorAngle.sin)
      perp == Point(-rodDir.y, rodDir.x)
      halfThick == HalfPx(MOTOR_ROD_THICKNESS) + Px(1)
      p1 == k.shaftStartGlobal
      p2 == Point(p1.x + RDiv(rodDir.x * shaftLength, One),
                  p1.y + RDiv(rodDir.y * shaftLength, One))
      ox == RDiv(perp.x * halfThick, One)
      oy == RDiv(perp.y * halfThick, One)
  IN << Point(p1.x + ox, p1.y + oy), Point(p1.x - ox, p1.y - oy),
        Point(p2.x - ox, p2.y - oy), Point(p2.x + ox, p2.y + oy) >>

\* the three tests of checkCollision on the kinematic state k of angleDeg
collisionIn(geo, flapHeight, shaftLength, angleDeg, k) ==
  \/ nutHitsHinge(k)
  \/ motorHitsWall(geo, k)
  \/ polygonsIntersect(polyFlapOf(geo, flapHeight, angleDeg), polyRodOf(k, shaftLength))

\* checkCollision(angleDeg) with the values it closes over
checkCollision(geo, flapHeight, shaftLength, angleDeg) ==
  collisionIn(geo, flapHeight, shaftLength, angleDeg, solveKinematics(geo, angleDeg))

(***************************************************************************)
(* Math.sin, Math.cos, Math.asin and Math.atan2 at arbitrary angles, in    *)
(* thousandths of a degree, by linear interpolation in SinTable            *)
(***************************************************************************)
\* sine of m thousandths of a degree, 0 <= m <= 90000
SinQuadrant(m) ==
  LET k == m \div 500
      f == m % 500
  IN IF f = 0 THEN SinTable[k + 1]
     ELSE SinTable[k + 1] + RDiv((SinTable[k + 2] - SinTable[k + 1]) * f, 500)

\* sine of m thousandths of a degree, 0 <= m <= 360000
SinTurn(m) ==
  IF m <= 90000 THEN SinQuadrant(m)
  ELSE IF m <= 180000 THEN SinQuadrant(180000 - m)
  ELSE IF m <= 270000 THEN -SinQuadrant(m - 180000)
  ELSE -SinQuadrant(360000 - m)

\* Math.sin for -360000 <= angle <= 360000
SinM(angle) == IF angle < 0 THEN -SinTurn(-angle) ELSE SinTurn(angle)

\* Math.cos for -270000 <= angle <= 270000
CosM(angle) == SinM(90000 - Abs(angle))

\* the largest k in lo..hi with SinTable[k + 1] <= v
RECURSIVE AsinSearch(_, _, _)
AsinSearch(v, lo, hi) ==
  IF lo >= hi THEN lo
  ELSE LET mid == (lo + hi + 1) \div 2
       IN IF SinTable[mid + 1] <= v THEN AsinSearch(v, mid, hi)
                                    ELSE AsinSearch(v, lo, mid - 1)

\* the angle between table entries k and k + 1 whose sine is w
AsinInterpolate(w, k) ==
  500 * k + RDiv(500 * (w - SinTable[k + 1]), SinTable[k + 2] - SinTable[k + 1])

\* Math.asin(w) * 180 / PI for 0 <= w <= One
AsinQuadrant(w) == AsinInterpolate(w, AsinSearch(w, 0, 179))

\* Math.asin(v) * 180 / PI for -One <= v <= One
AsinM(v) == IF v < 0 THEN -AsinQuadrant(-v) ELSE AsinQuadrant(v)

\* the angle of (x, y), |y| <= |x|, from t = asin(y / r)
Atan2Flat(y, x, t) ==
  IF x > 0 THEN t
  ELSE IF y >= 0 THEN 180000 - t ELSE -180000 - t

\* the angle of (x, y), |y| > |x|, from t = asin(x / r)
Atan2Steep(y, x, t) == IF y > 0 THEN 90000 - t ELSE -90000 + t

\* the angle of (x, y) at distance r from the origin
Atan2Polar(y, x, r) ==
  IF r = 0 THEN 0
  ELSE IF Abs(y) <= Abs(x)
  THEN Atan2Flat(y, x, AsinM(Clamp1(RDiv(y * One, r))))
  ELSE Atan2Steep(y, x, AsinM(Clamp1(RDiv(x * One, r))))

\* Math.atan2(y, x) * 180 / PI; atan2(0, 0) = 0
Atan2M(y, x) == Atan2Polar(y, x, Sqrt(x * x + y * y))

(***************************************************************************)
(* Two-bar variant: constants (src/constants.ts lines 16-107)              *)
(***************************************************************************)
TB_LAYOUT_ORIGIN_X == 680
TB_LAYOUT_TOP_MARGIN == 40
TB_LAYOUT_TOP_PANEL_H == 80
TB_FRAME_WIDTH == 40
TB_FRAME_THICKNESS == 4
TB_INSULATION_THICKNESS == 24
TB_MECHANICS_OVERLAP_TOP == 20
TB_MECHANICS_OVERLAP_BOTTOM == 20
TB_MECHANICS_FLAP_HEADROOM == 15
TB_MECHANICS_BAR_WIDTH == 14
TB_MECHANICS_LINK_LENGTH == 70
TB_MECHANICS_PIVOT_OFFSET_Y == 25
TB_MOTOR_ROD_THICKNESS == 6
TB_MOTOR_SHAFT_END_CAP_H == 4
TB_MOTOR_DIST_BELOW_PIVOT == 30
TB_COLLISION_SAFETY_MARGIN == 6
TB_GAP_HEIGHT_MIN == 60
TB_GAP_HEIGHT_MAX == 220
TB_GAP_HEIGHT_DEFAULT == 120
TB_MOTOR_SPACING_MIN == 24
TB_MOTOR_SPACING_MAX == 60
TB_MOTOR_SPACING_DEFAULT == 30

(***************************************************************************)
(* Two-bar variant: 2. kinematic solver.  Angles in thousandths of a       *)
(* degree.                                                                 *)
(***************************************************************************)
\* angles computed in doubles are resolved to 0.1 degree: the nut height is kept to 1/40 px, and near the
\* closed flap the nut moves by 1/40 px for 0.04 degree of angle
AngleResolution == 100

\* flapMountBaseAngle = -Math.PI / 2
flapMountBaseAngle == -90000

\* flapMount = pivot + radius * (cos, sin) of effectiveAngle
polarPoint(center, radius, effectiveAngle) ==
  Point(center.x + RDiv(radius * CosM(effectiveAngle), One),
        center.y + RDiv(radius * SinM(effectiveAngle), One))

\* dy = sqrt(max(0, linkSq - dx^2)) for the horizontal distance dx
linkDrop(dx) ==
  Sqrt(Max(0, Px(TB_MECHANICS_LINK_LENGTH) * Px(TB_MECHANICS_LINK_LENGTH) - dx * dx))

\* the nut: on the shaft (x = motorPos.x), below the pin at link distance
nutBelow(flapMount, motorPos) ==
  Point(motorPos.x, flapMount.y + linkDrop(Abs(motorPos.x - flapMount.x)))

\* the record solveKinematics returns
linkState(flapMount, nut) ==
  [flapMount |-> flapMount,
   nut |-> nut,
   linkAngleDeg |-> Atan2M(flapMount.y - nut.y, flapMount.x - nut.x)]

kinematicsOfMount(flapMount, motorPos) ==
  linkState(flapMount, nutBelow(flapMount, motorPos))

\* the pin on the flap at angleDeg, and the nut below it on the shaft
kinematicsAt(pivot, motorPos, flapMountRadius, angleDeg) ==
  kinematicsOfMount(polarPoint(pivot, flapMountRadius, angleDeg + flapMountBaseAngle),
                    motorPos)

\* solveKinematics(angleDeg) of the two-bar variant
solveKinematicsTB(geo, angleDeg) ==
  kinematicsAt(geo.pivot, geo.motorPos, geo.flapMountRadius, angleDeg)

(***************************************************************************)
(* Two-bar variant: 1. static geometry (useMemo body)                      *)
(***************************************************************************)
\* Math.max(-170, Math.min(0, maxAngleDeg))
clampMaxAngle(raw) == Max(-170000, Min(0, raw))

\* the analytic limit: where the bar's pin circle meets the line x = safetyX;
\* -45 degrees when they do not meet
analyticMaxAngle(safetyX, pivotX, flapMountRadius) ==
  clampMaxAngle(IF Abs(safetyX - pivotX) < flapMountRadius
                THEN AsinM(Clamp1(SDiv((safetyX - pivotX) * One, flapMountRadius)))
                ELSE -45000)

\* the static geometry record from the values the body computed
staticGeoTBOf(pivot, motorPos, mountHoleLocal, maxAngleDeg, topPanelBottomY, botPanelTopY) ==
  [pivot |-> pivot,
   motorPos |-> motorPos,
   flapMountRadius |-> Abs(mountHoleLocal.y),
   mountHoleLocal |-> mountHoleLocal,
   maxAngleDeg |-> maxAngleDeg,
   nutY_Closed |-> kinematicsAt(pivot, motorPos, Abs(mountHoleLocal.y), 0).nut.y,
   nutY_Open |-> kinematicsAt(pivot, motorPos, Abs(mountHoleLocal.y), maxAngleDeg).nut.y,
   topPanelBottomY |-> topPanelBottomY,
   botPanelTopY |-> botPanelTopY]

computeStaticGeoTB(gapHeight, motorSpacing) ==
  LET screenTopY == Px(TB_LAYOUT_TOP_MARGIN)
      topPanelTopY == screenTopY + Px(TB_FRAME_THICKNESS)
      topPanelBottomY == topPanelTopY + Px(TB_LAYOUT_TOP_PANEL_H)
      botPanelTopY == topPanelBottomY + Px(gapHeight)
      flapTopY_Closed == topPanelBottomY - Px(TB_MECHANICS_OVERLAP_TOP)
                           - Px(TB_MECHANICS_FLAP_HEADROOM)
      flapBottomY_Closed == botPanelTopY + Px(TB_MECHANICS_OVERLAP_BOTTOM)
      pivotY == flapBottomY_Closed + Px(TB_MECHANICS_PIVOT_OFFSET_Y)
      motorCenterY == pivotY + Px(TB_MOTOR_DIST_BELOW_PIVOT)
      frameCenterX == Px(TB_LAYOUT_ORIGIN_X) + HalfPx(TB_FRAME_WIDTH)
      fixedInsulationLeftX == frameCenterX - HalfPx(TB_INSULATION_THICKNESS)
      flapLeftX_Closed == fixedInsulationLeftX - Px(TB_INSULATION_THICKNESS)
      barLeftX == flapLeftX_Closed - Px(TB_MECHANICS_BAR_WIDTH)
      pivotX == barLeftX + HalfPx(TB_MECHANICS_BAR_WIDTH)
      motorCenterX == pivotX - Px(motorSpacing)
      topHoleGlobalY_Closed == flapTopY_Closed + Px(12)
      mountHoleLocal == Point(0, topHoleGlobalY_Closed - pivotY)
      shaftRightX == motorCenterX + HalfPx(TB_MOTOR_ROD_THICKNESS)
                       + HalfPx(TB_MOTOR_SHAFT_END_CAP_H)
      safetyX == shaftRightX + Px(TB_COLLISION_SAFETY_MARGIN)
  IN staticGeoTBOf(Point(pivotX, pivotY),
                   Point(motorCenterX, motorCenterY),
                   mountHoleLocal,
                   analyticMaxAngle(safetyX, pivotX, Abs(mountHoleLocal.y)),
                   topPanelBottomY,
                   botPanelTopY)

(***************************************************************************)
(* Two-bar variant: 3. system state resolution                             *)
(***************************************************************************)
\* closedNutY + (actuatorExtension / 100) * travelDist
nutYBetween(closedNutY, openNutY, actuatorExtension) ==
  closedNutY + RDiv(actuatorExtension * (openNutY - closedNutY), 100)

\* currentNutY, from closedState = solveKinematics(0) and
\* openState = solveKinematics(staticGeo.maxAngleDeg)
currentNutYOf(geo, actuatorExtension) ==
  nutYBetween(solveKinematicsTB(geo, 0).nut.y,
              solveKinematicsTB(geo, geo.maxAngleDeg).nut.y,
              actuatorExtension)

\* the guard without its test of the inner limit
beyondReachOnly(d, r1, r2) == d > r1 + r2 \/ d = 0

\* the guard of solveAngleFromNutY: target out of the two links' reach
infeasible(d, r1, r2) == d > r1 + r2 \/ d < Abs(r1 - r2) \/ d = 0

\* the first intersection point (x3_1, y3_1), on the other side of P-N
firstRoot(P, N, d, aa, h) ==
  Atan2M((P.y + SDiv(aa * (N.y - P.y), d)) - SDiv(h * (N.x - P.x), d) - P.y,
         (P.x + SDiv(aa * (N.x - P.x), d)) + SDiv(h * (N.y - P.y), d) - P.x)
    - flapMountBaseAngle

\* the second intersection point (x3_2, y3_2), as the angle seen from P
secondRoot(P, N, d, aa, h) ==
  Atan2M((P.y + SDiv(aa * (N.y - P.y), d)) + SDiv(h * (N.x - P.x), d) - P.y,
         (P.x + SDiv(aa * (N.x - P.x), d)) - SDiv(h * (N.y - P.y), d) - P.x)
    - flapMountBaseAngle

\* the chord: h = sqrt(max(0, r1^2 - a^2))
chordRoot(P, N, d, r1, aa) ==
  secondRoot(P, N, d, aa, Sqrt(Max(0, r1 * r1 - aa * aa)))

\* circle-circle intersection of radii r1 about P and r2 about N, d apart
circleIntersection(P, N, d, r1, r2) ==
  IF infeasible(d, r1, r2) THEN 0
  ELSE chordRoot(P, N, d, r1, RDiv(r1 * r1 - r2 * r2 + d * d, 2 * d))

circlesAbout(P, N, r1, r2) == circleIntersection(P, N, getDistance(P, N), r1, r2)

\* solveAngleFromNutY(targetY)
solveAngleFromNutY(geo, targetY) ==
  circlesAbout(geo.pivot, Point(geo.motorPos.x, targetY), geo.flapMountRadius,
               Px(TB_MECHANICS_LINK_LENGTH))

\* the moving parts returned as "dynamic": finalState's nut, pin and link angle
dynamicTBOf(finalState) ==
  [nut |-> finalState.nut,
   flapMount |-> finalState.flapMount,
   linkAngleDeg |-> finalState.linkAngleDeg]

\* the SystemState returned for currentAngleDeg, with
\* finalState = solveKinematics(currentAngleDeg)
snapshotTB(geo, currentAngleDeg) ==
  [maxAngleDeg |-> geo.maxAngleDeg,
   currentAngleDeg |-> currentAngleDeg,
   dynamic |-> dynamicTBOf(solveKinematicsTB(geo, currentAngleDeg)),
   valid |-> TRUE]

\* the snapshot of the two-bar variant
assembleTB(cfg, geo) ==
  snapshotTB(geo, solveAngleFromNutY(geo, currentNutYOf(geo, cfg.actuatorExtension)))

(***************************************************************************)
(* Bounds of the model: how many sample values each slider offers.  The    *)
(* sliders have step 1; the model samples their range at equal strides.    *)
(***************************************************************************)
NFlapSamples == 3
NMotorSamples == 4
NAppFlapSamples == 1
NAppMotorSamples == 1
NGapSamples == 2
NTBMotorSamples == 2
NExtSamples == 2
NTweenSamples == 2
\* time stamps of animation frames, in steps of the interval that moves the
\* extension by ExtStride percent at 0.5 Hz
NTimeSamples == 4
\* angles and nut heights the solvers are applied to
NAngleSamples == 8
NHeightSamples == 4
\* polygons are offset by up to MaxShift half units each way
MaxShift == 3

Samples(lo, hi, n) ==
  LET stride == (hi - lo) \div n
  IN {lo + i * stride : i \in 0..n}

\* configurations handed to the scanner on its own
FlapHeights == Samples(FLAP_HEIGHT_MIN, FLAP_HEIGHT_MAX, NFlapSamples)
MotorSpacings == Samples(MOTOR_SPACING_MIN, MOTOR_SPACING_MAX, NMotorSamples)
\* values the sliders of the running application are moved to: the long flaps,
\* 50 px apart from the top of the range (long flaps with the widest motor
\* spacing are the ones that swing clear to END_ANGLE), and both ends of the
\* motor spacing
AppFlapHeights == {FLAP_HEIGHT_MAX - 50 * i : i \in 0..NAppFlapSamples}
AppMotorSpacings == Samples(MOTOR_SPACING_MIN, MOTOR_SPACING_MAX, NAppMotorSamples)
GapHeights == Samples(TB_GAP_HEIGHT_MIN, TB_GAP_HEIGHT_MAX, NGapSamples)
TBMotorSpacings == Samples(TB_MOTOR_SPACING_MIN, TB_MOTOR_SPACING_MAX, NTBMotorSamples)
ExtStride == (EXTENSION_MAX - EXTENSION_MIN) \div NExtSamples
Extensions == Samples(EXTENSION_MIN, EXTENSION_MAX, NExtSamples)

\* animation speed in tenths of a hertz: paused, and the Play button's 0.5 Hz
Speeds == {0, 5}
\* frame intervals in ms: none, the interval that moves the extension by
\* ExtStride percent at 0.5 Hz, and a stalled frame that overshoots the range
FrameIntervals == {0, 10 * ExtStride, 40 * ExtStride}
\* the progress of the tween at its ticks, in percent of its duration
TweenProgress == {(100 * k) \div NTweenSamples : k \in 1..NTweenSamples}

(***************************************************************************)
(* State                                                                   *)
(***************************************************************************)
VARIABLES
  variant,       \* which variant of the application runs: "forward" or "twobar"
  config,        \* App's config state (SimulationConfig)
  directionRef,  \* App's directionRef.current: 1 or -1
  staticGeo,     \* useMemo cell of staticGeo: [deps, value]
  maxMemo,       \* useMemo cell of maxAngleDeg: [deps, value]
  pc,            \* position of the hook: "idle", "check0" (line 475), "loop" (478-482)
  a,             \* the sweep's loop variable
  evals,         \* checkCollision calls made by the sweep in progress or last run
  lastEval,      \* [angle, hit] of the last checkCollision call, or NoEval
  snapshot,      \* the SystemState returned by the last render, or NoSnapshot
  lastEdit,      \* the config keys whose value the last update changed
  recomputed,    \* the memo cells the render after the last update recomputed
  speedRef,      \* App's speedRef.current, in tenths of a hertz
  tween,         \* the Open/Close tween of Controls in flight, or NoTween
  clock,         \* where frames are given by their time stamps: App's
                 \* lastTimeRef.current and the time stamp of the last frame;
                 \* NoClock where frames are given by their intervals
  probe          \* a function of the program under test on its own: its
                 \* arguments and, once applied, its results; NoProbe in the
                 \* application

vars == << variant, config, directionRef, staticGeo, maxMemo, pc, a, evals, lastEval,
           snapshot, lastEdit, recomputed, speedRef, tween, clock, probe >>

\* everything but probe
appVars == << variant, config, directionRef, staticGeo, maxMemo, pc, a, evals, lastEval,
              snapshot, lastEdit, recomputed, speedRef, tween, clock >>

\* the Controls' tween: the tick callbacks requestAnimationFrame holds for it,
\* each with the start and change its closure captured, and the callback
\* animationRef.current names ({} for undefined)
NoTween == [pending |-> {}, ref |-> {}]
NoProbe == [kind |-> "none"]
NoClock == [on |-> FALSE]

NoEval == [angle |-> 1, hit |-> FALSE]
NoSnapshot == [maxAngleDeg |-> 1, currentAngleDeg |-> 1, valid |-> FALSE]
\* value of a memo cell whose computation is in progress: no angle of the grid
Pending == START_ANGLE + 1

(***************************************************************************)
(* Forward-mapping variant: 4. final state assembly                        *)
(***************************************************************************)
\* a faulty mapping: the slider's visual value (100 - extension) taken for the
\* extension
currentAngleDegInverted(actuatorExtension, maxAngleDeg) ==
  (100 - actuatorExtension) * maxAngleDeg

\* currentAngleDeg = (actuatorExtension / 100) * maxAngleDeg, in thousandths
\* of a degree: percent times tenths of a degree
currentAngleDegOf(actuatorExtension, maxAngleDeg) == actuatorExtension * maxAngleDeg

\* maxAngleDeg in thousandths of a degree, to compare with currentAngleDeg
Milli(angleDeg) == 100 * angleDeg

\* solveKinematics(angleDeg) for any angle, in thousandths of a degree
solveKinematicsM(geo, angle) ==
  kinematicsAtNut(geo,
                  rotatePoint(Point(geo.pivot.x + ((geo.flapX - geo.mountLength) - geo.pivot.x),
                                    geo.pivot.y + geo.localNutY),
                              geo.pivot, CosM(angle), SinM(angle)))

\* a faulty assembly: the kinematics of the limit (maxKinematics) returned as
\* the current ones
kinematicsAtLimit(geo, cfg, maxAngleDeg) == solveKinematicsM(geo, Milli(maxAngleDeg))

\* currentKinematics = solveKinematics(currentAngleDeg)
currentKinematicsOf(geo, cfg, maxAngleDeg) ==
  solveKinematicsM(geo, currentAngleDegOf(cfg.actuatorExtension, maxAngleDeg))

\* the moving parts returned as "dynamic": nut, motor angle, shaft start and
\* the rod's extension between them
dynamicOf(currentKinematics) ==
  [nut |-> currentKinematics.nutGlobal,
   motorAngle |-> currentKinematics.motorAngle,
   shaftStart |-> currentKinematics.shaftStartGlobal,
   rodExtension |-> getDistance(currentKinematics.shaftStartGlobal,
                                currentKinematics.nutGlobal)]

assemble(cfg, geo, maxAngleDeg) ==
  [maxAngleDeg |-> Milli(maxAngleDeg),
   currentAngleDeg |-> currentAngleDegOf(cfg.actuatorExtension, maxAngleDeg),
   dynamic |-> dynamicOf(currentKinematicsOf(geo, cfg, maxAngleDeg)),
   valid |-> TRUE]

(***************************************************************************)
(* The hook called with configuration cfg: a render                        *)
(***************************************************************************)
\* a faulty dependency list of staticGeo: motorSpacing left out
staticDepsFlapOnly(cfg) == << cfg.flapHeight >>

\* useMemo's comparison of the dependency list [flapHeight, motorSpacing]
staticDepsOf(cfg) == << cfg.flapHeight, cfg.motorSpacing >>

\* a faulty dependency list: actuatorExtension listed as well
maxDepsWithExtension(cfg, shaftLength) ==
  << cfg.flapHeight, cfg.motorSpacing, shaftLength, cfg.actuatorExtension >>

\* the dependency list [flapHeight, motorSpacing, fixedShaftLength]
maxDepsOf(cfg, shaftLength) == << cfg.flapHeight, cfg.motorSpacing, shaftLength >>

\* a faulty comparison: only the first dependency is compared
memoFirstDep(cell, deps, value) ==
  IF cell.deps[1] = deps[1] THEN cell ELSE [deps |-> deps, value |-> value]

\* a useMemo cell after a render with dependency list deps: kept on a hit,
\* otherwise recomputed to value
memo(cell, deps, value) ==
  IF cell.deps = deps THEN cell ELSE [deps |-> deps, value |-> value]

RenderForward(cfg) ==
  /\ staticGeo' = memo(staticGeo, staticDepsOf(cfg),
                       computeStaticGeo(cfg.flapHeight, cfg.motorSpacing))
  /\ maxMemo' = memo(maxMemo,
                     maxDepsOf(cfg, computeFixedShaftLength(staticGeo'.value)),
                     Pending)
  /\ recomputed' = (IF staticGeo'.deps = staticGeo.deps THEN {} ELSE {"staticGeo"})
                     \cup (IF maxMemo'.deps = maxMemo.deps THEN {} ELSE {"maxAngleDeg"})
  /\ IF maxMemo'.deps = maxMemo.deps
     THEN /\ snapshot' = assemble(cfg, staticGeo'.value, maxMemo.value)
          /\ UNCHANGED << pc, a, evals, lastEval >>
     ELSE /\ pc' = "check0"
          /\ a' = START_ANGLE
          /\ evals' = 0
          /\ lastEval' = NoEval
          /\ snapshot' = NoSnapshot

\* the two-bar hook: staticGeo is memoised on [gapHeight, motorSpacing]; the
\* limit is part of it and there is no sweep
staticDepsTB(cfg) == << cfg.gapHeight, cfg.motorSpacing >>

RenderTwoBar(cfg) ==
  /\ staticGeo' = memo(staticGeo, staticDepsTB(cfg),
                       computeStaticGeoTB(cfg.gapHeight, cfg.motorSpacing))
  /\ recomputed' = (IF staticGeo'.deps = staticGeo.deps THEN {} ELSE {"staticGeo"})
  /\ snapshot' = assembleTB(cfg, staticGeo'.value)
  /\ UNCHANGED << maxMemo, pc, a, evals, lastEval >>

Render(cfg) == IF variant = "forward" THEN RenderForward(cfg) ELSE RenderTwoBar(cfg)

\* setConfig(next) followed by the render it schedules.  React runs the
\* effects still pending from the previous commit before it renders again, so
\* speedRef holds the committed animationSpeed when the render starts.
Update(next) ==
  /\ pc = "idle"
  /\ config' = next
  /\ lastEdit' = {k \in DOMAIN next : next[k] # config[k]}
  /\ speedRef' = config.animationSpeed
  /\ Render(next)
  /\ UNCHANGED << variant, probe >>

(***************************************************************************)
(* The collision sweep (maxAngleDeg useMemo body), one checkCollision call *)
(* per step                                                                *)
(***************************************************************************)
collides(angleDeg) ==
  checkCollision(staticGeo.value, config.flapHeight, maxMemo.deps[3], angleDeg)

\* return value of the scan: store the memo, assemble the snapshot
Return(angleDeg) ==
  /\ maxMemo' = [maxMemo EXCEPT !.value = angleDeg]
  /\ snapshot' = assemble(config, staticGeo.value, angleDeg)
  /\ pc' = "idle"

\* faulty back-offs: none (the colliding angle is returned), and two steps
noBackOff(angleDeg) == angleDeg
backOffTwice(angleDeg) == angleDeg + 2 * PRECISION

\* a faulty back-off of less than a step
backOffShort(angleDeg) == angleDeg + PRECISION - 1

\* "return a + PRECISION": back off one step
backOff(angleDeg) == angleDeg + PRECISION

\* a faulty update: every other angle of the grid is skipped
skipAngle(angleDeg) == angleDeg - 2 * PRECISION

\* the loop's update "a -= PRECISION"
nextAngle(angleDeg) == angleDeg - PRECISION

\* a faulty condition: one iteration past END_ANGLE
loopPastEnd(angleDeg) == angleDeg >= END_ANGLE - PRECISION

\* the loop's condition "a >= END_ANGLE"
loopContinues(angleDeg) == angleDeg >= END_ANGLE

\* a faulty scan without the immediate check of line 475: straight into the loop
CheckClosedSkipped ==
  /\ pc = "check0"
  /\ pc' = "loop"
  /\ a' = START_ANGLE
  /\ UNCHANGED << variant, config, directionRef, staticGeo, maxMemo, evals, lastEval,
                  snapshot, lastEdit, recomputed, speedRef, tween, clock, probe >>

\* line 475: if (checkCollision(START_ANGLE)) return START_ANGLE
CheckClosed ==
  /\ pc = "check0"
  /\ evals' = evals + 1
  /\ lastEval' = [angle |-> START_ANGLE, hit |-> collides(START_ANGLE)]
  /\ IF lastEval'.hit
     THEN Return(START_ANGLE) /\ UNCHANGED a
     ELSE pc' = "loop" /\ a' = START_ANGLE /\ UNCHANGED << maxMemo, snapshot >>
  /\ UNCHANGED << variant, config, directionRef, staticGeo, lastEdit, recomputed,
                  speedRef, tween, clock, probe >>

\* lines 478-482: one iteration of the for loop
LoopStep ==
  /\ pc = "loop"
  /\ loopContinues(a)
  /\ evals' = evals + 1
  /\ lastEval' = [angle |-> a, hit |-> collides(a)]
  /\ IF lastEval'.hit
     THEN Return(backOff(a)) /\ UNCHANGED a
     ELSE a' = nextAngle(a) /\ UNCHANGED << maxMemo, snapshot, pc >>
  /\ UNCHANGED << variant, config, directionRef, staticGeo, lastEdit, recomputed,
                  speedRef, tween, clock, probe >>

\* a faulty fallthrough: the loop variable is returned instead of END_ANGLE
LoopExitAtLoopVariable ==
  /\ pc = "loop"
  /\ ~loopContinues(a)
  /\ Return(a)
  /\ UNCHANGED << variant, config, directionRef, staticGeo, a, evals, lastEval,
                  lastEdit, recomputed, speedRef, tween, clock, probe >>

\* line 483: the loop ran out: return END_ANGLE
LoopExit ==
  /\ pc = "loop"
  /\ ~loopContinues(a)
  /\ Return(END_ANGLE)
  /\ UNCHANGED << variant, config, directionRef, staticGeo, a, evals, lastEval,
                  lastEdit, recomputed, speedRef, tween, clock, probe >>

(***************************************************************************)
(* User input (Controls) and the animation loop (App)                      *)
(***************************************************************************)
\* ControlRow "Flap Length": onChange('flapHeight', v)
SetFlapHeight ==
  \E v \in AppFlapHeights :
    /\ variant = "forward"
    /\ Update([config EXCEPT !.flapHeight = v])
    /\ UNCHANGED << directionRef, tween, clock >>

\* ControlRow "Motor Spacing": onChange('motorSpacing', v)
SetMotorSpacing ==
  \E v \in (IF variant = "forward" THEN AppMotorSpacings ELSE TBMotorSpacings) :
    /\ Update([config EXCEPT !.motorSpacing = v])
    /\ UNCHANGED << directionRef, tween, clock >>

\* ControlRow "Vent Height" of the two-bar variant: onChange('gapHeight', v)
SetGapHeight ==
  \E v \in GapHeights :
    /\ variant = "twobar"
    /\ Update([config EXCEPT !.gapHeight = v])
    /\ UNCHANGED << directionRef, tween, clock >>

\* the Hz slider: onChange('animationSpeed', v)
SetAnimationSpeed ==
  \E v \in Speeds :
    /\ Update([config EXCEPT !.animationSpeed = v])
    /\ UNCHANGED << directionRef, tween, clock >>

\* the Play/Pause button: onChange('animationSpeed', isPlaying ? 0 : 0.5)
TogglePlay ==
  /\ Update([config EXCEPT !.animationSpeed = IF config.animationSpeed > 0 THEN 0 ELSE 5])
  /\ UNCHANGED << directionRef, tween, clock >>

\* handlePosChange(visualVal): extension 100 - visualVal, pause when playing;
\* the Controls that have the Open/Close tween cancel it
\* a handler that leaves the scheduled callback alone
noCancel(tw) == tw

\* if (animationRef.current) cancelAnimationFrame(animationRef.current)
cancel(tw) == [tw EXCEPT !.pending = tw.pending \ tw.ref]

\* animationRef.current = requestAnimationFrame(tick)
schedule(tw, tick) == [pending |-> tw.pending \cup {tick}, ref |-> {tick}]

handlePosChange(visualVal) ==
  /\ Update([config EXCEPT !.actuatorExtension = 100 - visualVal,
                           !.animationSpeed = 0])
  /\ tween' = cancel(tween)
  /\ UNCHANGED << directionRef, clock >>

DragPosition == \E visualVal \in Extensions : handlePosChange(visualVal)

\* moveAmount = (totalDistancePerCycle * speed * deltaTime) / 1000, in percent,
\* for a speed in tenths of a hertz
moveAmountOf(speed, deltaTime) ==
  (((EXTENSION_MAX - EXTENSION_MIN) * 2) * speed * deltaTime) \div 10000

\* an updater without the clamp
unclamped(nextExt) == nextExt

\* nextExt and the bounce: clamp to the limit reached
bounce(nextExt) ==
  IF nextExt >= EXTENSION_MAX THEN EXTENSION_MAX
  ELSE IF nextExt <= EXTENSION_MIN THEN EXTENSION_MIN
  ELSE nextExt

\* an updater that never turns
keepDirection(nextExt, direction) == direction

\* directionRef.current after the bounce
bounceDirection(nextExt, direction) ==
  IF nextExt >= EXTENSION_MAX THEN -1
  ELSE IF nextExt <= EXTENSION_MIN THEN 1
  ELSE direction

\* prev.actuatorExtension + moveAmount * directionRef.current
nextExtOf(cfg, moveAmount, direction) == cfg.actuatorExtension + moveAmount * direction

\* animate(time), deltaTime after the last frame, with speed = speedRef.current
\* > 0: moveAmount, then the setConfig updater with the bounce
Frame(deltaTime) ==
  /\ speedRef > 0
  /\ Update([config EXCEPT
               !.actuatorExtension =
                 bounce(nextExtOf(config, moveAmountOf(speedRef, deltaTime), directionRef))])
  /\ directionRef' =
       bounceDirection(nextExtOf(config, moveAmountOf(speedRef, deltaTime), directionRef),
                       directionRef)
  /\ UNCHANGED tween

AnimationTick == \E deltaTime \in FrameIntervals : Frame(deltaTime) /\ UNCHANGED clock

\* the effect "speedRef.current = config.animationSpeed" of a commit that
\* changed animationSpeed, run after that commit
SyncSpeedRef ==
  /\ pc = "idle"
  /\ speedRef # config.animationSpeed
  /\ speedRef' = config.animationSpeed
  /\ UNCHANGED << variant, config, directionRef, staticGeo, maxMemo, pc, a, evals,
                  lastEval, snapshot, lastEdit, recomputed, tween, clock, probe >>

\* a faulty ease: the first branch for every progress
easeIn(progress) == (2 * progress * progress) \div 100

\* ease(progress) of the tween, both in percent:
\* progress < 0.5 ? 2 p^2 : -1 + (4 - 2 p) p
ease(progress) ==
  IF progress < 50 THEN (2 * progress * progress) \div 100
  ELSE -100 + ((400 - 2 * progress) * progress) \div 100

\* animateTo(targetExtension), the Open and Close buttons of the Controls in
\* SimulationCanvas.tsx: pause when playing, cancel a tween in flight, and
\* start one unless the flap is within 0.1 of the target.  The buttons are
\* pressed with the flap at one of the sampled positions.
animateTo(targetExtension) ==
  /\ variant = "twobar"
  /\ pc = "idle"
  /\ config.actuatorExtension \in Extensions
  /\ IF config.animationSpeed > 0
     THEN Update([config EXCEPT !.animationSpeed = 0])
     ELSE UNCHANGED << variant, config, staticGeo, maxMemo, pc, a, evals, lastEval,
                       snapshot, lastEdit, recomputed, speedRef, probe >>
  /\ tween' = IF targetExtension = config.actuatorExtension THEN cancel(tween)
              ELSE schedule(cancel(tween),
                            [start |-> config.actuatorExtension,
                             change |-> targetExtension - config.actuatorExtension])
  /\ UNCHANGED << directionRef, clock >>

StartTween == \E targetExtension \in {EXTENSION_MIN, EXTENSION_MAX} : animateTo(targetExtension)

\* tick(now) of a scheduled callback at the given progress (percent of the
\* 800 ms): onChange('actuatorExtension', start + change * ease), then the
\* next tick is scheduled, or after the tick with progress 1
\* animationRef.current is cleared
tickAt(tick, progress) ==
  /\ tick \in tween.pending
  /\ Update([config EXCEPT
               !.actuatorExtension = tick.start + RDiv(tick.change * ease(progress), 100)])
  /\ tween' = IF progress < 100
              THEN schedule([tween EXCEPT !.pending = @ \ {tick}], tick)
              ELSE [pending |-> tween.pending \ {tick}, ref |-> {}]
  /\ UNCHANGED << directionRef, clock >>

TweenTick == \E tick \in tween.pending, progress \in TweenProgress : tickAt(tick, progress)

(***************************************************************************)
(* Specification: either variant of the application after mount.  The      *)
(* forward-mapping variant starts with its first sweep under way; the      *)
(* two-bar variant's first render has no sweep and is complete.            *)
(***************************************************************************)
INITIAL_CONFIG ==
  [actuatorExtension |-> EXTENSION_DEFAULT,
   flapHeight |-> FLAP_HEIGHT_DEFAULT,
   motorSpacing |-> MOTOR_SPACING_DEFAULT,
   animationSpeed |-> SPEED_DEFAULT]

INITIAL_CONFIG_TB ==
  [actuatorExtension |-> EXTENSION_DEFAULT,
   gapHeight |-> TB_GAP_HEIGHT_DEFAULT,
   animationSpeed |-> SPEED_DEFAULT,
   motorSpacing |-> TB_MOTOR_SPACING_DEFAULT]

\* the forward-mapping hook called for the first time with cfg
MountForward(cfg) ==
  /\ variant = "forward"
  /\ config = cfg
  /\ directionRef = 1
  /\ staticGeo = [deps |-> staticDepsOf(cfg),
                  value |-> computeStaticGeo(cfg.flapHeight, cfg.motorSpacing)]
  /\ maxMemo = [deps |-> maxDepsOf(cfg, computeFixedShaftLength(staticGeo.value)),
                value |-> Pending]
  /\ pc = "check0"
  /\ a = START_ANGLE
  /\ evals = 0
  /\ lastEval = NoEval
  /\ snapshot = NoSnapshot
  /\ lastEdit = {}
  /\ recomputed = {"staticGeo", "maxAngleDeg"}
  /\ speedRef = cfg.animationSpeed
  /\ tween = NoTween

\* the two-bar hook called for the first time with cfg
MountTwoBar(cfg) ==
  /\ variant = "twobar"
  /\ config = cfg
  /\ directionRef = 1
  /\ staticGeo = [deps |-> staticDepsTB(cfg),
                  value |-> computeStaticGeoTB(cfg.gapHeight, cfg.motorSpacing)]
  /\ maxMemo = [deps |-> << >>, value |-> Pending]
  /\ pc = "idle"
  /\ a = START_ANGLE
  /\ evals = 0
  /\ lastEval = NoEval
  /\ snapshot = assembleTB(cfg, staticGeo.value)
  /\ lastEdit = {}
  /\ recomputed = {"staticGeo"}
  /\ speedRef = cfg.animationSpeed
  /\ tween = NoTween

Init ==
  /\ MountForward(INITIAL_CONFIG) \/ MountTwoBar(INITIAL_CONFIG_TB)
  /\ probe = NoProbe /\ clock = NoClock

Sweep == CheckClosed \/ LoopStep \/ LoopExit

Next ==
  \/ Sweep
  \/ SetFlapHeight
  \/ SetMotorSpacing
  \/ SetGapHeight
  \/ SetAnimationSpeed
  \/ TogglePlay
  \/ DragPosition
  \/ AnimationTick
  \/ SyncSpeedRef

Spec == Init /\ [][Next]_vars

(***************************************************************************)
(* Specification of the position of the flap: the application with the     *)
(* Controls of SimulationCanvas.tsx, its geometry sliders left alone       *)
(***************************************************************************)
InitApp == MountTwoBar(INITIAL_CONFIG_TB) /\ probe = NoProbe /\ clock = NoClock

NextApp ==
  \/ SetAnimationSpeed
  \/ TogglePlay
  \/ DragPosition
  \/ AnimationTick
  \/ SyncSpeedRef
  \/ StartTween
  \/ TweenTick

SpecApp == InitApp /\ [][NextApp]_vars

(***************************************************************************)
(* Specification of the scanner alone: the forward-mapping hook called     *)
(* once with a configuration within the slider ranges                      *)
(***************************************************************************)
ScanConfigs ==
  {[INITIAL_CONFIG EXCEPT !.flapHeight = f, !.motorSpacing = m] :
     f \in FlapHeights, m \in MotorSpacings}

InitScan == probe = NoProbe /\ clock = NoClock /\ \E cfg \in ScanConfigs : MountForward(cfg)

SpecScan == InitScan /\ [][Sweep]_vars

(***************************************************************************)
(* Specification of the scanner over the hook's whole input type: the      *)
(* configurations above, and configurations no slider produces, with the   *)
(* motor pivot mounted above the flap pivot (a negative motorSpacing)      *)
(***************************************************************************)
MirroredConfigs ==
  {[INITIAL_CONFIG EXCEPT !.motorSpacing = -m] :
     m \in {MOTOR_SPACING_DEFAULT, MOTOR_SPACING_MAX}}

InitHook ==
  probe = NoProbe /\ clock = NoClock /\ \E cfg \in ScanConfigs \cup MirroredConfigs : MountForward(cfg)

SpecHook == InitHook /\ [][Sweep]_vars

(***************************************************************************)
(* The hook as a function of its configuration: what a first call, with no *)
(* memo cell filled, computes (lines 470-484 run from start to end)        *)
(***************************************************************************)
\* the angles of the scan grid: 0, -0.5, ..., -160
GridSteps == (START_ANGLE - END_ANGLE) \div PRECISION
GridAngles == {START_ANGLE - k * PRECISION : k \in 0..GridSteps}

\* the iterations lo..hi of the for loop, the k-th at a = START_ANGLE - k *
\* PRECISION: the value returned by the first one that collides, Pending when
\* none does.  The range is halved, the front half run first, to keep the
\* evaluation shallow.
\* the loop goes on with the rest unless an earlier iteration returned
scanRest(returned, rest) == IF returned # Pending THEN returned ELSE rest

RECURSIVE scanBetween(_, _, _, _, _)
scanBetween(geo, flapHeight, shaftLength, lo, hi) ==
  IF lo = hi
  THEN IF checkCollision(geo, flapHeight, shaftLength, START_ANGLE - lo * PRECISION)
       THEN backOff(START_ANGLE - lo * PRECISION)
       ELSE Pending
  ELSE scanRest(scanBetween(geo, flapHeight, shaftLength, lo, (lo + hi) \div 2),
                scanBetween(geo, flapHeight, shaftLength, ((lo + hi) \div 2) + 1, hi))

\* the whole loop, and line 483 when it runs out
scanLoop(returned) == scanRest(returned, END_ANGLE)

\* the body of the maxAngleDeg useMemo
scanWith(geo, flapHeight, shaftLength) ==
  IF checkCollision(geo, flapHeight, shaftLength, START_ANGLE) THEN START_ANGLE
  ELSE scanLoop(scanBetween(geo, flapHeight, shaftLength, 0, GridSteps))

scanOfGeo(geo, flapHeight) == scanWith(geo, flapHeight, computeFixedShaftLength(geo))

\* maxAngleDeg of a first call with flapHeight and motorSpacing
firstCallMaxAngle(flapHeight, motorSpacing) ==
  scanOfGeo(computeStaticGeo(flapHeight, motorSpacing), flapHeight)

\* the geometries the running application can be in, each with the
\* maxAngleDeg of a first call
AppGeometries ==
  ({FLAP_HEIGHT_DEFAULT} \cup AppFlapHeights)
    \X ({MOTOR_SPACING_DEFAULT} \cup AppMotorSpacings)

FirstCallTable == {<< g[1], g[2], firstCallMaxAngle(g[1], g[2]) >> : g \in AppGeometries}

firstCallOf(cfg) ==
  (CHOOSE t \in FirstCallTable :
     t[1] = cfg.flapHeight /\ t[2] = cfg.motorSpacing)[3]

\* the SystemState of a first call with cfg, in either variant
firstCallSnapshot(cfg) ==
  IF "flapHeight" \in DOMAIN cfg
  THEN assemble(cfg, computeStaticGeo(cfg.flapHeight, cfg.motorSpacing), firstCallOf(cfg))
  ELSE assembleTB(cfg, computeStaticGeoTB(cfg.gapHeight, cfg.motorSpacing))

(***************************************************************************)
(* Properties                                                              *)
(***************************************************************************)
\* the sweep has returned: maxMemo.value is the hook's maxAngleDeg
Settled == variant = "forward" /\ pc = "idle"

\* the configuration keys the geometry depends on
GeometryKeys == {"flapHeight", "gapHeight", "motorSpacing"}

\* C1 (as stated): whenever the hook has returned a snapshot, in either
\* variant, maxAngleDeg <= currentAngleDeg <= 0.
C1_AngleBound ==
  snapshot.valid =>
    /\ snapshot.maxAngleDeg <= snapshot.currentAngleDeg
    /\ snapshot.currentAngleDeg <= 0

\* C2: once the scan has returned, checkCollision is false at maxAngleDeg and
\* at every grid angle between 0 and maxAngleDeg inclusive.
C2_CollisionFreeRange ==
  Settled => \A g \in GridAngles : g >= maxMemo.value => ~collides(g)

C2_Witness ==
  /\ Settled
  /\ END_ANGLE < maxMemo.value
  /\ maxMemo.value < START_ANGLE - PRECISION
  /\ ~collides(maxMemo.value)

\* C3: once the scan has returned, if some grid angle collides (the scan did
\* not run to END_ANGLE without finding a collision), the grid angle one step
\* further open than maxAngleDeg collides.
C3_TightLimit ==
  Settled /\ (\E g \in GridAngles : collides(g)) => collides(maxMemo.value - PRECISION)

C3_Witness ==
  /\ Settled
  /\ lastEval.hit
  /\ lastEval.angle = maxMemo.value - PRECISION
  /\ collides(lastEval.angle)

\* one step of the scan: what a step of the loop evaluates and what follows
C4_StepOrder ==
  /\ pc = "check0" /\ pc' = "loop" => a' = START_ANGLE
  /\ pc = "loop" /\ evals' # evals =>
       /\ evals' = evals + 1
       /\ lastEval'.angle = a
       /\ lastEval'.hit = collides(a)
       /\ lastEval'.hit => pc' = "idle" /\ maxMemo'.value = a + PRECISION
       /\ ~lastEval'.hit => pc' = "loop" /\ a' = a - PRECISION
  /\ pc = "idle" => evals' = evals

\* the evaluations made so far, counted against the loop variable
C4_Sequence ==
  /\ pc = "loop" => evals = ((START_ANGLE - a) \div PRECISION) + 1
  /\ Settled /\ lastEval.hit /\ evals > 1 =>
       /\ evals = ((START_ANGLE - lastEval.angle) \div PRECISION) + 2
       /\ maxMemo.value = lastEval.angle + PRECISION
       /\ \A g \in GridAngles : g > lastEval.angle => ~collides(g)

\* C4: each iteration of the sweep evaluates the loop variable, which starts
\* at 0 and goes down by PRECISION after every evaluation without a
\* collision; the first evaluation with a collision ends the sweep, which
\* returns that angle plus PRECISION; and the angle of the k-th evaluation of
\* the loop is -(k - 1) * PRECISION, every angle before it evaluated once.
C4_ScanOrder == [][C4_StepOrder]_vars /\ []C4_Sequence

C4_Witness ==
  /\ Settled
  /\ lastEval.hit
  /\ lastEval.angle < START_ANGLE - 2 * PRECISION
  /\ evals = ((START_ANGLE - lastEval.angle) \div PRECISION) + 2

\* C5 (as stated): once the scan has returned, no grid angle further open
\* than maxAngleDeg is collision-free.
C5_Supremum ==
  Settled => \A g \in GridAngles : g < maxMemo.value => collides(g)

\* C5 (amended): maxAngleDeg is the most-open grid angle that can be reached
\* from 0 through collision-free grid angles only: every grid angle from 0 to
\* maxAngleDeg is collision-free, and maxAngleDeg is END_ANGLE or the next
\* grid angle collides.  Collision-free grid angles may lie beyond it.
C5_FirstObstruction ==
  Settled /\ ~collides(START_ANGLE) =>
    /\ \A g \in GridAngles : g >= maxMemo.value => ~collides(g)
    /\ maxMemo.value = END_ANGLE \/ collides(maxMemo.value - PRECISION)

C5_Witness ==
  /\ Settled
  /\ collides(maxMemo.value - PRECISION)
  /\ \E g \in GridAngles : g < maxMemo.value /\ ~collides(g)

\* C6: once the scan has returned, if checkCollision(START_ANGLE) is true the
\* result is 0, found with the single evaluation of the immediate check (the
\* loop variable never moved), and the snapshot is a normal one with
\* maxAngleDeg = currentAngleDeg = 0.
C6_ClosedCollides ==
  Settled /\ collides(START_ANGLE) =>
    /\ maxMemo.value = START_ANGLE
    /\ evals = 1
    /\ a = START_ANGLE
    /\ snapshot.valid
    /\ snapshot.maxAngleDeg = 0
    /\ snapshot.currentAngleDeg = 0

C6_Witness ==
  /\ Settled
  /\ collides(START_ANGLE)
  /\ lastEval = [angle |-> START_ANGLE, hit |-> TRUE]

\* C7: once the scan has returned, if checkCollision is false at every grid
\* angle from 0 to END_ANGLE inclusive, the result is END_ANGLE.
C7_HardStop ==
  Settled /\ (\A g \in GridAngles : ~collides(g)) => maxMemo.value = END_ANGLE

C7_Witness ==
  /\ Settled
  /\ \A g \in GridAngles : ~collides(g)
  /\ maxMemo.value = END_ANGLE
  /\ ~lastEval.hit

\* C8 (as stated): a scan performs at most range/step = 320 loop iterations.
\* evals counts the immediate check as well, so the loop ran evals - 1 times.
C8_AtMostRangeOverStep == evals - 1 <= GridSteps

\* the evaluations made so far, counted against the loop variable and the
\* grid; and until the scan has returned one of its steps can be taken (the
\* guards of CheckClosed, LoopStep and LoopExit, whose other conjuncts only
\* assign)
C8_Bound ==
  /\ evals <= GridSteps + 2
  /\ pc = "loop" => a = START_ANGLE - (evals - 1) * PRECISION
  /\ pc = "loop" => a >= END_ANGLE - PRECISION
  /\ variant = "forward" =>
       \/ pc = "idle"
       \/ pc = "check0"
       \/ pc = "loop" /\ loopContinues(a)
       \/ pc = "loop" /\ ~loopContinues(a)

\* the steps the scan may still take: none once it has returned
C8_Remaining ==
  IF pc = "idle" THEN 0
  ELSE IF pc = "check0" THEN GridSteps + 3
  ELSE ((a - END_ANGLE) \div PRECISION) + 2

\* every step of a scan in progress uses up one of the remaining steps
C8_Progress == pc # "idle" => C8_Remaining' < C8_Remaining /\ C8_Remaining' >= 0

\* C8 (amended): the sweep terminates (every step of a scan in progress
\* lowers a non-negative count, and a step can be taken until the scan has
\* returned), and a scan performs at most range/step + 1 = 321 loop
\* iterations (the loop's bounds are inclusive), which with the immediate
\* check makes at most 322 collision evaluations.
C8_BoundedSweep == [][C8_Progress]_vars /\ []C8_Bound

C8_Witness ==
  /\ Settled
  /\ evals = GridSteps + 2
  /\ lastEval.angle = END_ANGLE

\* a step that leaves the geometry keys of config alone keeps the memo cells:
\* its render recomputes nothing, and a step without a render (an effect, a
\* button that changes nothing) leaves the hook's state as it is
C9_KeepsMemo ==
  (\A k \in GeometryKeys \cap DOMAIN config : config'[k] = config[k]) =>
    /\ staticGeo' = staticGeo
    /\ maxMemo' = maxMemo \/ pc # "idle"
    /\ pc = "idle" =>
         /\ pc' = "idle"
         /\ evals' = evals
         /\ recomputed' = {} \/ UNCHANGED << config, snapshot, recomputed >>

\* C9: an update that changes none of flapHeight, gapHeight and motorSpacing
\* (only actuatorExtension or animationSpeed) recomputes neither the static
\* geometry nor the scan: both memo cells keep their contents and no sweep
\* starts.
C9_RescanTrigger == [][C9_KeepsMemo]_vars

C9_Witness ==
  /\ Settled
  /\ lastEdit # {}
  /\ lastEdit \subseteq {"actuatorExtension", "animationSpeed"}
  /\ recomputed = {}
  /\ maxMemo.value < START_ANGLE
  /\ evals > 1

\* C10: in the forward-mapping variant the snapshot's currentAngleDeg is
\* (actuatorExtension / 100) * maxAngleDeg; extension 0 gives 0 and extension
\* 100 gives maxAngleDeg exactly.
C10_ForwardMapping ==
  variant = "forward" /\ snapshot.valid =>
    /\ 100 * snapshot.currentAngleDeg = config.actuatorExtension * snapshot.maxAngleDeg
    /\ snapshot.maxAngleDeg = Milli(maxMemo.value)
    /\ config.actuatorExtension = 0 => snapshot.currentAngleDeg = 0
    /\ config.actuatorExtension = 100 => snapshot.currentAngleDeg = snapshot.maxAngleDeg

C10_Witness ==
  /\ variant = "forward"
  /\ snapshot.valid
  /\ config.actuatorExtension = 100
  /\ snapshot.maxAngleDeg < 0
  /\ snapshot.currentAngleDeg = snapshot.maxAngleDeg

\* C11: whatever the sequence of earlier calls, the snapshot returned for a
\* configuration is the one a first call with that configuration returns: the
\* memoised static geometry and limit are those a fresh computation gives, so
\* two calls with identical configuration return identical values.
C11_Determinism ==
  snapshot.valid =>
    /\ snapshot = firstCallSnapshot(config)
    /\ variant = "forward" =>
         /\ staticGeo.value = computeStaticGeo(config.flapHeight, config.motorSpacing)
         /\ maxMemo.value = firstCallOf(config)
    /\ variant = "twobar" =>
         staticGeo.value = computeStaticGeoTB(config.gapHeight, config.motorSpacing)

\* a call after calls with other geometries (the flap length was edited after
\* mount), served from the memo cells
C11_Witness ==
  /\ snapshot.valid
  /\ variant = "forward"
  /\ config.flapHeight = FLAP_HEIGHT_MAX
  /\ config.motorSpacing = MOTOR_SPACING_DEFAULT
  /\ lastEdit = {"actuatorExtension"}
  /\ recomputed = {}
  /\ evals > 1
  /\ snapshot.currentAngleDeg < 0

\* C12: the dynamic part of every returned snapshot is the kinematic solver's
\* result at that snapshot's currentAngleDeg.
C12_SnapshotConsistency ==
  snapshot.valid =>
    IF variant = "forward"
    THEN snapshot.dynamic =
           dynamicOf(solveKinematicsM(staticGeo.value, snapshot.currentAngleDeg))
    ELSE snapshot.dynamic =
           dynamicTBOf(solveKinematicsTB(staticGeo.value, snapshot.currentAngleDeg))

\* a snapshot strictly between closed and the limit, whose moving parts differ
\* from those at the limit
C12_Witness ==
  /\ snapshot.valid
  /\ variant = "forward"
  /\ snapshot.maxAngleDeg < snapshot.currentAngleDeg
  /\ snapshot.currentAngleDeg < 0
  /\ snapshot.dynamic.nut #
       solveKinematicsM(staticGeo.value, snapshot.maxAngleDeg).nutGlobal

(***************************************************************************)
(* polygonsIntersect applied to pairs of convex polygons                   *)
(***************************************************************************)
\* Coordinates are in half units, so that a unit square has side 2 and the
\* offsets 0.5, 1.0 and 1.5 are 1, 2 and 3.
UnitSquare == << Point(0, 0), Point(2, 0), Point(2, 2), Point(0, 2) >>
\* a square standing on a corner, and a triangle listed clockwise
Diamond == << Point(1, 0), Point(2, 1), Point(1, 2), Point(0, 1) >>
Triangle == << Point(0, 0), Point(0, 2), Point(2, 0) >>
Shapes == {UnitSquare, Diamond, Triangle}

Offsets == {Point(dx, dy) : dx \in -MaxShift..MaxShift, dy \in -MaxShift..MaxShift}

Shift(poly, offset) ==
  [i \in 1..Len(poly) |-> Point(poly[i].x + offset.x, poly[i].y + offset.y)]

Negated(offset) == Point(-offset.x, -offset.y)

InitSAT ==
  /\ MountTwoBar(INITIAL_CONFIG_TB)
  /\ clock = NoClock
  /\ \E shapeA \in Shapes, shapeB \in Shapes, offset \in Offsets :
       probe = [kind |-> "sat", shapeA |-> shapeA, shapeB |-> shapeB,
                offset |-> offset, tested |-> FALSE, ab |-> FALSE, ba |-> FALSE]

\* polygonsIntersect(polyA, polyB) and polygonsIntersect(polyB, polyA), polyB
\* being shapeB moved by the offset
TestIntersect ==
  /\ probe.kind = "sat"
  /\ ~probe.tested
  /\ probe' = [probe EXCEPT
                 !.tested = TRUE,
                 !.ab = polygonsIntersect(probe.shapeA, Shift(probe.shapeB, probe.offset)),
                 !.ba = polygonsIntersect(Shift(probe.shapeB, probe.offset), probe.shapeA)]
  /\ UNCHANGED appVars

SpecSAT == InitSAT /\ [][TestIntersect]_vars

(***************************************************************************)
(* Plane geometry the SAT result is compared with                          *)
(***************************************************************************)
Cross(o, p, q) == (p.x - o.x) * (q.y - o.y) - (p.y - o.y) * (q.x - o.x)

NextVertex(poly, i) == poly[(i % Len(poly)) + 1]

\* pt lies in the closed region of the convex polygon, whichever way it is listed
InRegion(pt, poly) ==
  \/ \A i \in 1..Len(poly) : Cross(poly[i], NextVertex(poly, i), pt) >= 0
  \/ \A i \in 1..Len(poly) : Cross(poly[i], NextVertex(poly, i), pt) <= 0

Between(lo, v, hi) == (lo <= v /\ v <= hi) \/ (hi <= v /\ v <= lo)

\* r lies on the closed segment p-q
OnSegment(p, q, r) ==
  Cross(p, q, r) = 0 /\ Between(p.x, r.x, q.x) /\ Between(p.y, r.y, q.y)

\* the closed segments p1-p2 and q1-q2 have a common point
SegmentsMeet(p1, p2, q1, q2) ==
  \/ /\ Cross(q1, q2, p1) * Cross(q1, q2, p2) < 0
     /\ Cross(p1, p2, q1) * Cross(p1, p2, q2) < 0
  \/ OnSegment(q1, q2, p1) \/ OnSegment(q1, q2, p2)
  \/ OnSegment(p1, p2, q1) \/ OnSegment(p1, p2, q2)

\* the closed regions of two convex polygons have a common point
SharePoint(polyP, polyQ) ==
  \/ \E i \in 1..Len(polyP) : InRegion(polyP[i], polyQ)
  \/ \E j \in 1..Len(polyQ) : InRegion(polyQ[j], polyP)
  \/ \E i \in 1..Len(polyP), j \in 1..Len(polyQ) :
       SegmentsMeet(polyP[i], NextVertex(polyP, i), polyQ[j], NextVertex(polyQ, j))

Dots(poly, axis) == {Dot(poly[i], axis) : i \in 1..Len(poly)}

\* v lies in the closed interval spanned by the values ds
Spans(ds, v) == (\E d \in ds : d <= v) /\ (\E d \in ds : v <= d)

\* the closed intervals of the two projections have a common value
ProjectionsOverlap(polyP, polyQ, axis) ==
  \E v \in Dots(polyP, axis) \cup Dots(polyQ, axis) :
    Spans(Dots(polyP, axis), v) /\ Spans(Dots(polyQ, axis), v)

OverlapOnEveryNormal(polyP, polyQ) ==
  /\ \A i \in 1..Len(polyP) : ProjectionsOverlap(polyP, polyQ, EdgeNormal(polyP, i))
  /\ \A j \in 1..Len(polyQ) : ProjectionsOverlap(polyP, polyQ, EdgeNormal(polyQ, j))

ProbedA == probe.shapeA
ProbedB == Shift(probe.shapeB, probe.offset)
SatTested == probe.kind = "sat" /\ probe.tested

\* C13: polygonsIntersect is true exactly when the projections of the two
\* polygons overlap on every edge normal of both, which is exactly when the
\* two regions share a point; unit squares offset by (0.5, 0) intersect and
\* offset by (1.5, 0) do not.
C13_SATCorrect ==
  SatTested =>
    /\ probe.ab = OverlapOnEveryNormal(ProbedA, ProbedB)
    /\ probe.ab = SharePoint(ProbedA, ProbedB)
    /\ (probe.shapeA = UnitSquare /\ probe.shapeB = UnitSquare /\ probe.offset = Point(1, 0))
         => probe.ab
    /\ (probe.shapeA = UnitSquare /\ probe.shapeB = UnitSquare /\ probe.offset = Point(3, 0))
         => ~probe.ab

\* a diamond beside the corner of the square: only the diamond's own edge
\* normal shows the gap
C13_Witness ==
  /\ SatTested
  /\ probe.shapeA = UnitSquare
  /\ probe.shapeB = Diamond
  /\ probe.offset = Point(2, 2)
  /\ ~probe.ab
  /\ \A i \in 1..Len(ProbedA) : ~isGap(ProbedA, ProbedB, EdgeNormal(ProbedA, i))

\* an edge line of polyP has polyP on one closed side and polyQ on the other
EdgeSeparates(polyP, polyQ) ==
  \E i \in 1..Len(polyP) :
    \/ /\ \A k \in 1..Len(polyP) : Cross(polyP[i], NextVertex(polyP, i), polyP[k]) >= 0
       /\ \A l \in 1..Len(polyQ) : Cross(polyP[i], NextVertex(polyP, i), polyQ[l]) <= 0
    \/ /\ \A k \in 1..Len(polyP) : Cross(polyP[i], NextVertex(polyP, i), polyP[k]) <= 0
       /\ \A l \in 1..Len(polyQ) : Cross(polyP[i], NextVertex(polyP, i), polyQ[l]) >= 0

\* the polygons touch along an edge or at a vertex and overlap nowhere else
Touching(polyP, polyQ) ==
  /\ SharePoint(polyP, polyQ)
  /\ EdgeSeparates(polyP, polyQ) \/ EdgeSeparates(polyQ, polyP)

\* the square and the diamond are their own mirror images about (1, 1)
Symmetric == {UnitSquare, Diamond}

\* C14: polygons that only touch along an edge or at a vertex intersect
\* (strict < in isGap), and the result is the same for (A, B) and (B, A),
\* whichever polygon is the shifted one and, for shapes that are their own
\* mirror image, whichever way the offset points.
C14_EdgeContact ==
  SatTested =>
    /\ probe.ab = probe.ba
    /\ Touching(ProbedA, ProbedB) => probe.ab
    /\ probe.ab = polygonsIntersect(Shift(probe.shapeA, Negated(probe.offset)), probe.shapeB)
    /\ (probe.shapeA \in Symmetric /\ probe.shapeB \in Symmetric)
         => probe.ab = polygonsIntersect(probe.shapeA,
                                         Shift(probe.shapeB, Negated(probe.offset)))

\* two unit squares offset by exactly (1.0, 0)
C14_Witness ==
  /\ SatTested
  /\ probe.shapeA = UnitSquare
  /\ probe.shapeB = UnitSquare
  /\ probe.offset = Point(2, 0)
  /\ Touching(ProbedA, ProbedB)
  /\ probe.ab
  /\ probe.ba

(***************************************************************************)
(* The two-bar solvers applied to sampled angles and nut heights           *)
(***************************************************************************)
\* geometries of the slider range, and one with the shaft under the pivot
\* (motorSpacing 0), the only place where the distance d can be 0
ProbeGeometries ==
  {computeStaticGeoTB(gapHeight, motorSpacing) :
     gapHeight \in GapHeights, motorSpacing \in TBMotorSpacings \cup {0}}

\* angles from closed (0) to geo.maxAngleDeg
ProbeAngles(geo) == {(geo.maxAngleDeg * k) \div NAngleSamples : k \in 0..NAngleSamples}

\* nut heights about the pivot's, from far above to far below it, in px
ProbeHeights(geo) == {geo.pivot.y + Px(100 * k) : k \in -NHeightSamples..NHeightSamples}

NoState == [valid |-> FALSE]

InitInverse ==
  /\ MountTwoBar(INITIAL_CONFIG_TB)
  /\ clock = NoClock
  /\ \E geo \in ProbeGeometries :
       \/ \E angleDeg \in ProbeAngles(geo) :
            probe = [kind |-> "inverse", geo |-> geo, stage |-> "angle",
                     angleDeg |-> angleDeg, targetY |-> 0, state |-> NoState]
       \/ \E targetY \in ProbeHeights(geo) :
            probe = [kind |-> "inverse", geo |-> geo, stage |-> "target",
                     angleDeg |-> 1, targetY |-> targetY, state |-> NoState]

\* solveKinematics(angleDeg).nut.y
ProbeForward ==
  /\ probe.kind = "inverse"
  /\ probe.stage = "angle"
  /\ probe' = [probe EXCEPT
                 !.stage = "target",
                 !.targetY = solveKinematicsTB(probe.geo, probe.angleDeg).nut.y]
  /\ UNCHANGED appVars

\* currentAngleDeg = solveAngleFromNutY(targetY), finalState =
\* solveKinematics(currentAngleDeg) and the state returned
ProbeInverse ==
  /\ probe.kind = "inverse"
  /\ probe.stage = "target"
  /\ probe' = [probe EXCEPT
                 !.stage = "solved",
                 !.state = snapshotTB(probe.geo, solveAngleFromNutY(probe.geo, probe.targetY))]
  /\ UNCHANGED appVars

NextInverse == ProbeForward \/ ProbeInverse

SpecInverse == InitInverse /\ [][NextInverse]_vars

\* the distance d of the probed solve, and its radii
ProbedD == getDistance(probe.geo.pivot, Point(probe.geo.motorPos.x, probe.targetY))
ProbedR1 == probe.geo.flapMountRadius
ProbedR2 == Px(TB_MECHANICS_LINK_LENGTH)
Solved == probe.kind = "inverse" /\ probe.stage = "solved"

\* C15: when the target is out of reach (d > r1 + r2, d < |r1 - r2| or
\* d = 0) solveAngleFromNutY returns 0, and the state returned is the
\* complete state of the closed flap: the pin straight above the pivot and
\* the nut at its closed height.
C15_InfeasibleFallback ==
  (Solved /\ (ProbedD > ProbedR1 + ProbedR2 \/ ProbedD < Abs(ProbedR1 - ProbedR2)
                \/ ProbedD = 0)) =>
    /\ probe.state.valid
    /\ probe.state.currentAngleDeg = 0
    /\ probe.state.maxAngleDeg = probe.geo.maxAngleDeg
    /\ probe.state.dynamic.flapMount =
         Point(probe.geo.pivot.x, probe.geo.pivot.y - ProbedR1)
    /\ probe.state.dynamic.nut = Point(probe.geo.motorPos.x, probe.geo.nutY_Closed)

\* a nut height at which the nut is nearer to the pivot than the two links
\* can fold
C15_Witness ==
  /\ Solved
  /\ probe.angleDeg = 1
  /\ ProbedD > 0
  /\ ProbedD < Abs(ProbedR1 - ProbedR2)
  /\ probe.geo.motorPos.x < probe.geo.pivot.x
  /\ probe.state.currentAngleDeg = 0
  /\ probe.state.dynamic.nut.y = probe.geo.nutY_Closed

RoundTripped == Solved /\ probe.angleDeg <= 0

\* the angle the hook resolves for an extension
AngleAtExtension(geo, actuatorExtension) ==
  solveAngleFromNutY(geo, currentNutYOf(geo, actuatorExtension))

RoundTripError == Abs(probe.state.currentAngleDeg - probe.angleDeg)

ObstacleOf(geo) ==
  obstaclePointOf(geo.pivot.x - HalfPx(MECHANICS_BRACKET_WIDTH), geo.pivot.y)

\* the two denominators of lines 334 and 336: the run of the line from the
\* motor pivot through the obstacle, and its slope (zero when the rise is)
SlopeDefined(geo) ==
  /\ ObstacleOf(geo).x - geo.motorPivot.x # 0
  /\ ObstacleOf(geo).y - geo.motorPivot.y # 0

\* every motor spacing of the slider, with the shortest and the longest flap
SlopeDefinedInRange ==
  \A motorSpacing \in MOTOR_SPACING_MIN..MOTOR_SPACING_MAX :
    \A flapHeight \in {FLAP_HEIGHT_MIN, FLAP_HEIGHT_MAX} :
      SlopeDefined(computeStaticGeo(flapHeight, motorSpacing))

\* every gap height and motor spacing of the two-bar sliders: the pin's
\* radius, the denominator of line 109
RadiusDefinedInRange ==
  \A gapHeight \in TB_GAP_HEIGHT_MIN..TB_GAP_HEIGHT_MAX :
    Px(gapHeight + TB_MECHANICS_OVERLAP_BOTTOM + TB_MECHANICS_PIVOT_OFFSET_Y
         + TB_MECHANICS_OVERLAP_TOP + TB_MECHANICS_FLAP_HEADROOM - 12) > 0

\* the distance d of the inverse solve the hook makes for its configuration
CurrentD(geo, cfg) ==
  getDistance(geo.pivot, Point(geo.motorPos.x, currentNutYOf(geo, cfg.actuatorExtension)))

\* C17: for every configuration within the slider bounds and every
\* extension the hook returns a complete state and no division has a zero
\* denominator: the run and the slope of the line that sizes mountLength,
\* the motor-pivot-to-nut distance of the asin correction (whose argument
\* stays within [-1, 1]), the pin radius and the distance d of the inverse
\* solve.
C17_FiniteOutput ==
  /\ SlopeDefinedInRange
  /\ RadiusDefinedInRange
  /\ (variant = "forward" /\ snapshot.valid) =>
       /\ SlopeDefined(staticGeo.value)
       /\ staticGeo.value.mountLength >= Px(30)
       /\ getDistance(staticGeo.value.motorPivot, snapshot.dynamic.nut) > 0
       /\ Abs(offsetSine(getDistance(staticGeo.value.motorPivot, snapshot.dynamic.nut)))
            <= One
       /\ DOMAIN snapshot.dynamic = {"nut", "motorAngle", "shaftStart", "rodExtension"}
  /\ (variant = "twobar" /\ snapshot.valid) =>
       /\ staticGeo.value.flapMountRadius > 0
       /\ CurrentD(staticGeo.value, config) > 0
       /\ ~infeasible(CurrentD(staticGeo.value, config), staticGeo.value.flapMountRadius,
                      Px(TB_MECHANICS_LINK_LENGTH))
       /\ DOMAIN snapshot.dynamic = {"nut", "flapMount", "linkAngleDeg"}

\* the motor as near to the obstacle's level as the slider allows, the flap
\* fully open
C17_Witness ==
  /\ variant = "forward"
  /\ snapshot.valid
  /\ pc = "idle"
  /\ config.motorSpacing = MOTOR_SPACING_MIN
  /\ config.actuatorExtension = EXTENSION_MAX
  /\ snapshot.currentAngleDeg < 0
  /\ SlopeDefined(staticGeo.value)

\* where a frame deltaTime ms after the last would take the extension
WouldReach(deltaTime) ==
  config.actuatorExtension
    + ((2 * (EXTENSION_MAX - EXTENSION_MIN) * speedRef * deltaTime) \div 10000) * directionRef

C18_BounceStep(deltaTime) ==
  Frame(deltaTime) =>
    /\ WouldReach(deltaTime) >= EXTENSION_MAX =>
         config'.actuatorExtension = EXTENSION_MAX /\ directionRef' = -1
    /\ WouldReach(deltaTime) <= EXTENSION_MIN =>
         config'.actuatorExtension = EXTENSION_MIN /\ directionRef' = 1
    /\ (EXTENSION_MIN < WouldReach(deltaTime) /\ WouldReach(deltaTime) < EXTENSION_MAX) =>
         config'.actuatorExtension = WouldReach(deltaTime) /\ directionRef' = directionRef

\* C18: a frame that would take the extension to or past 100 sets it to
\* exactly 100 and the direction to -1; one that would take it to or below 0
\* sets it to exactly 0 and the direction to +1; every other frame moves the
\* extension and keeps the direction.
C18_Bounce == [][\A deltaTime \in FrameIntervals : C18_BounceStep(deltaTime)]_vars

\* the flap has bounced at the top: it is at 100, moving down, still playing
C18_Witness ==
  /\ config.actuatorExtension = EXTENSION_MAX
  /\ directionRef = -1
  /\ lastEdit = {"actuatorExtension"}
  /\ config.animationSpeed > 0
  /\ speedRef > 0
  /\ tween.pending = {}

\* C19: while config.animationSpeed is 0 a frame changes neither the
\* extension nor the direction, wherever the frame falls between the update
\* that set the speed to 0 and the effect that copies it into speedRef.
C19_StoppedAtZero ==
  [][(config.animationSpeed = 0 /\ AnimationTick) =>
       /\ config'.actuatorExtension = config.actuatorExtension
       /\ directionRef' = directionRef]_vars

\* C20: the extension stays within [0, 100] through frames of any sampled
\* interval, drags of the position slider and the Open and Close tweens.
C20_ExtensionRange ==
  /\ EXTENSION_MIN <= config.actuatorExtension
  /\ config.actuatorExtension <= EXTENSION_MAX

\* a tween on its way, started while the animation had left the flap at a
\* limit it bounced off
C20_Witness ==
  /\ tween.pending # {}
  /\ directionRef = -1
  /\ lastEdit = {"actuatorExtension"}
  /\ EXTENSION_MIN < config.actuatorExtension
  /\ config.actuatorExtension < EXTENSION_MAX
  /\ \E tick \in tween.pending : config.actuatorExtension # tick.start

\* C28: the maxAngleDeg the scan returns is an angle of the grid 0, -0.5,
\* ..., -160: a multiple of PRECISION, not positive and not below END_ANGLE;
\* it is END_ANGLE only when the scan evaluated every angle of the grid and
\* none collided.
C28_ScanResultRange ==
  Settled =>
    /\ maxMemo.value \in GridAngles
    /\ (START_ANGLE - maxMemo.value) % PRECISION = 0
    /\ maxMemo.value <= START_ANGLE
    /\ maxMemo.value >= END_ANGLE
    /\ maxMemo.value = END_ANGLE =>
         /\ ~lastEval.hit
         /\ lastEval.angle = END_ANGLE
         /\ \A g \in GridAngles : ~collides(g)

\* a scan that stopped at a collision inside the range and backed off
C28_Witness ==
  /\ Settled
  /\ lastEval.hit
  /\ lastEval.angle < START_ANGLE
  /\ lastEval.angle > END_ANGLE
  /\ maxMemo.value = lastEval.angle + PRECISION
  /\ maxMemo.value \in GridAngles

\* C29: after any sequence of edits the memo cells used for the current
\* render are keyed by the current dependency values and hold what a fresh
\* computation with the current flapHeight (gapHeight) and motorSpacing
\* returns, and the limit handed out is the memoised one: a stale static
\* geometry or a stale limit is never served.
C29_CacheCoherence ==
  /\ variant = "forward" =>
       /\ staticGeo.deps = staticDepsOf(config)
       /\ staticGeo.value = computeStaticGeo(config.flapHeight, config.motorSpacing)
       /\ maxMemo.deps = maxDepsOf(config, computeFixedShaftLength(staticGeo.value))
       /\ pc = "idle" =>
            /\ maxMemo.value = firstCallOf(config)
            /\ snapshot.valid
            /\ snapshot.maxAngleDeg = Milli(maxMemo.value)
  /\ variant = "twobar" =>
       /\ staticGeo.deps = staticDepsTB(config)
       /\ staticGeo.value = computeStaticGeoTB(config.gapHeight, config.motorSpacing)

\* both dimensions were edited away from their defaults and the current
\* render, of an extension change, is served from both memo cells
C29_Witness ==
  /\ Settled
  /\ config.flapHeight # INITIAL_CONFIG.flapHeight
  /\ config.motorSpacing # INITIAL_CONFIG.motorSpacing
  /\ lastEdit = {"actuatorExtension"}
  /\ recomputed = {}
  /\ snapshot.valid
  /\ snapshot.maxAngleDeg = Milli(maxMemo.value)
  /\ maxMemo.value # firstCallOf(INITIAL_CONFIG)

\* an animation frame that changes the extension
MovingFrame == AnimationTick /\ config.actuatorExtension' # config.actuatorExtension

\* with this configuration, speedRef and directionRef some animation frame
\* passes the speed > 0 test and its updater changes the extension
FrameWouldMove(cfg, speed, direction) ==
  \E deltaTime \in FrameIntervals :
    /\ speed > 0
    /\ bounce(nextExtOf(cfg, moveAmountOf(speed, deltaTime), direction)) # cfg.actuatorExtension

OtherKeys == DOMAIN config \ {"actuatorExtension", "animationSpeed"}

\* C23: a drag of the position slider to v leaves actuatorExtension at
\* 100 - v and animationSpeed at 0 and changes no other field, and from then
\* on no animation frame changes the extension: the loop's speed > 0 test
\* fails for every frame that follows the drag.  (Once a frame after the
\* drag cannot move the flap, only the speedRef effect can run, after which
\* speedRef is 0 until the next user action.)
C23_DragSticks ==
  [][\A visualVal \in Extensions :
       handlePosChange(visualVal) =>
         /\ config.actuatorExtension' = 100 - visualVal
         /\ config.animationSpeed' = 0
         /\ \A k \in OtherKeys : config[k]' = config[k]
         /\ ~FrameWouldMove(config', speedRef', directionRef')]_vars

\* what the drag itself writes
C23_DragWrites ==
  [][\A visualVal \in Extensions :
       handlePosChange(visualVal) =>
         /\ config.actuatorExtension' = 100 - visualVal
         /\ config.animationSpeed' = 0
         /\ \A k \in OtherKeys : config[k]' = config[k]]_vars

\* C26: while a tween started by animateTo still has a frame scheduled, an
\* animation frame of the bounce loop does not change the extension, also
\* when Play was pressed or the Hz slider moved during the tween.
C26_SingleWriter ==
  [][(tween.pending # {} /\ AnimationTick) =>
       config.actuatorExtension' = config.actuatorExtension]_vars

\* the same for the frames that find speedRef equal to the committed speed
C26_SingleWriterSynced ==
  [][(tween.pending # {} /\ speedRef = config.animationSpeed /\ AnimationTick) =>
       config.actuatorExtension' = config.actuatorExtension]_vars

\* C25: at most one tick of the tween is scheduled at any time, and it is the
\* one animationRef.current names; a drag of the position slider leaves none
\* scheduled and the extension at the dragged value; after animateTo(target)
\* the only tick scheduled is one of a tween towards that target; and the
\* last tick of a tween leaves the extension at its target with nothing
\* scheduled.  A superseded tween therefore never writes the extension again.
C25_SingleTween ==
  /\ [](Cardinality(tween.pending) <= 1 /\ tween.pending \subseteq tween.ref)
  /\ [][\A visualVal \in Extensions :
          handlePosChange(visualVal) =>
            /\ tween.pending' = {}
            /\ config.actuatorExtension' = 100 - visualVal]_vars
  /\ [][\A targetExtension \in {EXTENSION_MIN, EXTENSION_MAX} :
          animateTo(targetExtension) =>
            \A tick \in tween.pending' : tick.start + tick.change = targetExtension]_vars
  /\ [][\A tick \in tween.pending :
          tickAt(tick, 100) =>
            /\ tween.pending' = {}
            /\ config.actuatorExtension' = tick.start + tick.change]_vars

\* a tween was cancelled before its last tick: nothing is scheduled, and
\* animationRef.current still names the cancelled callback
C25_Witness ==
  /\ tween.pending = {}
  /\ tween.ref # {}
  /\ \E tick \in tween.ref : config.actuatorExtension # tick.start + tick.change

(***************************************************************************)
(* The Open/Close tween left to itself: the user acts only while no tick   *)
(* is scheduled.  requestAnimationFrame keeps calling the scheduled tick   *)
(* and the time it passes grows, so progress = min(1, elapsed / duration)  *)
(* reaches 1: the tick at progress 1, the step that takes the tick off the *)
(* schedule and clears animationRef.current, is taken if it stays          *)
(* possible.  The fairness condition names that step by what it does to    *)
(* the tween.                                                              *)
(***************************************************************************)
LastTick ==
  \E tick \in tween.pending : tween' = [pending |-> tween.pending \ {tick}, ref |-> {}]

NextTween ==
  \/ tween.pending = {} /\ SetAnimationSpeed
  \/ tween.pending = {} /\ TogglePlay
  \/ tween.pending = {} /\ DragPosition
  \/ tween.pending = {} /\ StartTween
  \/ AnimationTick
  \/ SyncSpeedRef
  \/ TweenTick

SpecTween == InitApp /\ [][NextTween]_vars /\ WF_tween(LastTick)

\* C24: once animateTo(target) has scheduled a tween (the flap is not at the
\* target) and the user does nothing else, the extension eventually equals
\* the target, 100 for Open and 0 for Close, with no tick scheduled and
\* animationRef.current cleared; animateTo with the flap at the target
\* leaves the extension unchanged and schedules nothing.
C24_TweenCompletes ==
  /\ \A targetExtension \in {EXTENSION_MIN, EXTENSION_MAX} :
       (\E tick \in tween.pending : tick.start + tick.change = targetExtension)
         ~> (config.actuatorExtension = targetExtension /\ tween = NoTween)
  /\ [][\A targetExtension \in {EXTENSION_MIN, EXTENSION_MAX} :
          (animateTo(targetExtension) /\ config.actuatorExtension = targetExtension) =>
            /\ config.actuatorExtension' = config.actuatorExtension
            /\ tween.pending' = {}]_vars

\* an Open tween half-way: its tick has run at progress 0.5 and is scheduled again
C24_Witness ==
  \E tick \in tween.pending :
    /\ tween.ref = {tick}
    /\ tick.start + tick.change = EXTENSION_MAX
    /\ tick.change > 0
    /\ config.actuatorExtension = tick.start + tick.change \div 2
    /\ config.animationSpeed = 0

\* The cycle 0 -> 100 -> 0 unrolled: the distance travelled since the last
\* visit of 0, and the extension after a distance
CyclePhase(extension, direction) ==
  IF direction = 1 THEN extension - EXTENSION_MIN
  ELSE 2 * (EXTENSION_MAX - EXTENSION_MIN) - (extension - EXTENSION_MIN)

ExtensionAt(distance) ==
  LET range == EXTENSION_MAX - EXTENSION_MIN
      phase == distance % (2 * range)
  IN IF phase <= range THEN EXTENSION_MIN + phase ELSE EXTENSION_MIN + 2 * range - phase

\* C21: at a constant speed a frame of interval deltaTime carries the
\* extension the distance 200 * speed * deltaTime / 1000 along the cycle
\* 0 -> 100 -> 0, also when the frame reaches a bound and turns; so frames
\* whose intervals sum to T travel 200 * speed * T / 1000 and a cycle takes
\* 1 / speed seconds.
C21_CycleRate ==
  [][\A deltaTime \in FrameIntervals :
       (Frame(deltaTime) /\ speedRef = config.animationSpeed) =>
         config.actuatorExtension' =
           ExtensionAt(CyclePhase(config.actuatorExtension, directionRef)
                         + moveAmountOf(speedRef, deltaTime))]_vars

\* the same for the frames that end short of both bounds or exactly on one
C21_RateBetweenBounds ==
  [][\A deltaTime \in FrameIntervals :
       (/\ Frame(deltaTime)
        /\ speedRef = config.animationSpeed
        /\ nextExtOf(config, moveAmountOf(speedRef, deltaTime), directionRef) <= EXTENSION_MAX
        /\ nextExtOf(config, moveAmountOf(speedRef, deltaTime), directionRef) >= EXTENSION_MIN) =>
         config.actuatorExtension' =
           ExtensionAt(CyclePhase(config.actuatorExtension, directionRef)
                         + moveAmountOf(speedRef, deltaTime))]_vars

(***************************************************************************)
(* The application with frames that keep arriving.  The browser keeps      *)
(* calling animate with a later time stamp, so a frame with a positive     *)
(* interval is taken whenever the loop's speed test lets frames move the   *)
(* flap; React runs a pending effect; and a scheduled tween comes to its   *)
(* last tick.  The frame is named by what it does to the configuration and *)
(* the direction.                                                          *)
(***************************************************************************)
PositiveFrame ==
  \E deltaTime \in FrameIntervals \ {0} :
    /\ speedRef > 0
    /\ config' = [config EXCEPT
                    !.actuatorExtension =
                      bounce(nextExtOf(config, moveAmountOf(speedRef, deltaTime), directionRef))]
    /\ directionRef' =
         bounceDirection(nextExtOf(config, moveAmountOf(speedRef, deltaTime), directionRef),
                         directionRef)

SpecBounce ==
  /\ InitApp
  /\ [][NextApp]_vars
  /\ WF_<< config, directionRef >>(PositiveFrame)
  /\ WF_vars(SyncSpeedRef)
  /\ WF_tween(LastTick)

\* C22: if from some time on animationSpeed stays above 0, the extension is
\* at 100 again and again and at 0 again and again, wherever the flap was and
\* whichever direction was stored when the speed was raised.
C22_BounceLiveness ==
  \/ []<>(config.animationSpeed = 0)
  \/ /\ []<>(config.actuatorExtension = EXTENSION_MAX)
     /\ []<>(config.actuatorExtension = EXTENSION_MIN)

\* playing with the flap at 100 and the direction still +1: the slider was
\* dragged to fully open and Play pressed
C22_Witness ==
  /\ config.actuatorExtension = EXTENSION_MAX
  /\ directionRef = 1
  /\ config.animationSpeed > 0
  /\ speedRef > 0
  /\ tween.pending = {}

(***************************************************************************)
(* The animation loop with its clock: animate(time) is called with the     *)
(* time stamps of the frames, which never decrease, and keeps the last one *)
(* in lastTimeRef.  The user plays, pauses and drags the position slider.  *)
(***************************************************************************)
FrameTimes == {k * 10 * ExtStride : k \in 1..NTimeSamples}

\* a loop that records the time only of the frames it finds the speed above 0
recordWhenPlaying(lastTime, speed, time) == IF speed > 0 THEN time ELSE lastTime

\* lastTimeRef.current = time
recordTime(lastTime, speed, time) == time

\* animate(time): a frame moves the flap when lastTimeRef.current is set and
\* the speed is above 0, by the interval since lastTimeRef.current
animateAt(time) ==
  /\ clock.on
  /\ pc = "idle"
  /\ time >= clock.frame
  /\ IF clock.lastTimeRef # 0 /\ speedRef > 0
     THEN Frame(time - clock.lastTimeRef)
     ELSE UNCHANGED << variant, config, directionRef, staticGeo, maxMemo, pc, a, evals,
                       lastEval, snapshot, lastEdit, recomputed, speedRef, tween, probe >>
  /\ clock' = [on |-> TRUE,
               lastTimeRef |-> recordTime(clock.lastTimeRef, speedRef, time),
               frame |-> time]

AnimationFrame == \E time \in FrameTimes : animateAt(time)

InitClock ==
  /\ MountTwoBar(INITIAL_CONFIG_TB)
  /\ probe = NoProbe
  /\ clock = [on |-> TRUE, lastTimeRef |-> 0, frame |-> 0]

NextClock ==
  \/ SetAnimationSpeed
  \/ TogglePlay
  \/ DragPosition
  \/ SyncSpeedRef
  \/ AnimationFrame

SpecClock == InitClock /\ [][NextClock]_vars

\* C27: every frame leaves its time stamp in lastTimeRef, the first frame
\* after mount and the frames at speed 0 included; so no frame moves the
\* extension by more than 200 * speed * (time since the previous frame) /
\* 1000, however long the animation was paused, and the first frame after
\* mount moves nothing.
C27_NoAccumulatedTime ==
  /\ [](clock.on => clock.lastTimeRef = clock.frame)
  /\ [][\A time \in FrameTimes :
          animateAt(time) =>
            /\ clock.lastTimeRef' = time
            /\ Abs(config.actuatorExtension' - config.actuatorExtension)
                 <= moveAmountOf(speedRef, time - clock.frame)
            /\ clock.frame = 0 => config.actuatorExtension' = config.actuatorExtension]_vars

\* playing again after frames went by at speed 0: the flap has moved by one
\* frame interval's worth although the clock is further on
C27_Witness ==
  /\ clock.on
  /\ clock.frame = 3 * 10 * ExtStride
  /\ config.animationSpeed > 0
  /\ speedRef > 0
  /\ directionRef = 1
  /\ config.actuatorExtension = EXTENSION_MIN + ExtStride
  /\ lastEdit = {"actuatorExtension"}

====
